---- MODULE Spec2Model ----
(***************************************************************************)
(* Verification model of aisproxy: the Process Supervisor                  *)
(* (lib/processManager.js, unified-server.js) and one session process      *)
(* (browserInstance.js with runBrowserInstanceWithRetry, keepAlive.js).    *)
(*                                                                         *)
(* SpecPM      : the supervisor side, ProcessManager and stop().           *)
(* SpecSession : one session process, from main to process exit.           *)
(* SpecReconnect : one call of reconnectWs, statement by statement.        *)
(***************************************************************************)
EXTENDS Integers, Sequences, FiniteSets, TLC

\* ---------------------------------------------------------------------
\* Bounds of the model
\* ---------------------------------------------------------------------
\* number of instance configurations the supervisor may spawn
MaxProcs == 2

Pids == 1..MaxProcs

VARIABLES
  \* ---- supervisor (ProcessManager / BrowserAutomationServer) ----
  isWindows,      \* process.platform === 'win32'
  processes,      \* keys of ProcessManager.processes (Map pid -> record)
  osState,        \* per pid: "unborn" | "running" | "exited" (the OS process)
  killed,         \* per pid: ChildProcess.killed (set when kill() delivered a signal)
  doomed,         \* per pid: reached by a signal it cannot handle (SIGKILL, taskkill, any kill on Windows)
  forceTried,     \* per pid: terminateAll attempted the forced kill on it
  shutdownEvent,  \* BrowserAutomationServer.shutdownEvent.isSet()
  taPc,           \* terminateAll: "idle" | "grace" | "settle" | "done"
  taTracked,      \* the pids tracked when terminateAll was called
  lateEvent       \* an exit/error event was handled after terminateAll completed

pmVars == <<isWindows, processes, osState, killed, doomed, forceTried,
            shutdownEvent, taPc, taTracked, lateEvent>>

VARIABLES
  \* ---- one session process (browserInstance.js, keepAlive.js) ----
  sPc,            \* position of the session process (see SessionPc)
  attempt,        \* runBrowserInstanceWithRetry: attempt
  shutdown,       \* the session's shutdownEvent.isSet()
  hasCookies,     \* config.authSource carries a non-empty cookie array
  platformOk,     \* a Camoufox executable path can be chosen (env, linux, win32)
  browser,        \* runBrowserInstance: browser  ("none" | "open" | "closed" | "closeFailed")
  context,        \* runBrowserInstance: context
  page,           \* runBrowserInstance: page
  closeLog,       \* the close() calls of the finally block, in order
  finalUrl,       \* page.url() after navigation, as the markers it contains
  pageTitle,      \* page.title() after navigation, as the markers it contains
  outcome,        \* outcome of the current/last Session Runner invocation
  failReason,     \* message of the error that ended the invocation
  loopState,      \* startKeepAliveLoop: "none" | "running" | "returned" | "raised"
  lastWsStatus,   \* startKeepAliveLoop: lastWsStatus
  clickCounter,   \* startKeepAliveLoop: clickCounter
  consecutiveErrors,           \* startKeepAliveLoop: consecutiveErrors
  consecutiveUnhealthyChecks,  \* startKeepAliveLoop: consecutiveUnhealthyChecks
  waitI,          \* startKeepAliveLoop: i of the interruptible 10 s wait
  lastRead,       \* the status read by the last tick that ran to its end
  ev,             \* what the tick just executed did (reads, reconnect calls)
  sinceHealth,    \* ticks begun since the last health check (since the loop was entered, before the first)
  delaySeconds,   \* runBrowserInstanceWithRetry: delaySeconds of the last backoff
  exitCode        \* exit code of the session process (-1 while it runs)

cfgVars  == <<hasCookies, platformOk>>
resVars  == <<browser, context, page, closeLog>>
navVars  == <<finalUrl, pageTitle>>
loopVars == <<lastWsStatus, clickCounter, consecutiveErrors,
              consecutiveUnhealthyChecks, waitI, lastRead, ev, sinceHealth>>

sVars == <<sPc, attempt, shutdown, cfgVars, resVars, navVars, outcome,
           failReason, loopState, loopVars, delaySeconds, exitCode>>

VARIABLES
  \* ---- fleet startup (AuthSource, BrowserAutomationServer) ----
  authKeys,          \* the numbers of the AUTH_JSON_<n> variables / auth-<n>.json files, in enumeration order
  authContent,       \* per index: what _getAuthContent(index) and JSON.parse make of the source
  fPc,               \* position of the server (see FleetPc)
  initialIndices,    \* AuthSource.initialIndices
  availableIndices,  \* AuthSource.availableIndices
  rejected,          \* _preValidateAndFilter: invalidSourceDescriptions
  instances,         \* _startBrowserInstances: instances
  fI,                \* _startBrowserInstances: i (1-based)
  spawnLog           \* the spawnBrowserInstance calls made so far, with their results

fVars == <<authKeys, authContent, fPc, initialIndices, availableIndices,
           rejected, instances, fI, spawnLog>>

VARIABLES
  \* ---- one call of reconnectWs, statement by statement (iframeHelper.js) ----
  rPc,        \* position inside reconnectWs (see ReconnectPc)
  rAttempt,   \* reconnectWs: attempt (0 before the call)
  rSteps,     \* the steps the current attempt has performed, in order
  rLast,      \* the attempt that ended last: its number, its steps, how it ended
  rResult,    \* the value reconnectWs returned ("-" before it returns)
  rPolls      \* waitForWsConnected: the 1 s waits of the current call

rVars == <<rPc, rAttempt, rSteps, rLast, rResult, rPolls>>

VARIABLES
  \* ---- the status endpoint, the argument of terminateAll, repeated signals ----
  health,      \* the body of the last GET /health response
  taTimeout,   \* terminateAll(timeout): the argument of the call
  taGraceMs,   \* the delay of the timer terminateAll waits on before its forced kill (0: no wait)
  stopAgain,   \* stop() was called again while the flag of the server was set
  sigAgain     \* SIGTERM/SIGINT was handled again while the flag of the session was set

qVars == <<health>>
gVars == <<stopAgain, sigAgain>>
xVars == <<qVars, taTimeout, taGraceMs, gVars>>

vars == <<pmVars, sVars, fVars, rVars, xVars>>

\* ---------------------------------------------------------------------
\* ProcessManager
\* ---------------------------------------------------------------------

\* removeProcess(pid): delete the record if present.
removeProcess(procs, pid) == procs \ {pid}

\* getAliveProcesses(): records whose handle has killed == true are
\* collected in deadPids and removed; the others are returned.
getAliveProcesses(procs) == {p \in procs : ~killed[p]}

\* Outcomes of ChildProcess.kill(sig) on a child that has not exited:
\*   "sent"   the signal was delivered, killed := true, returns true
\*   "throws" kill raises (caught by the caller's try/catch)
\*   "error"  kill emits 'error' on the child: the 'error' listener of
\*            spawnBrowserInstance runs removeProcess(pid)
KillOutcome == {"sent", "throws", "error"}

\* spawnBrowserInstance(config), called from _startBrowserInstances, which
\* breaks out of its loop once shutdownEvent is set.  Instances are spawned
\* in index order.
SpawnBrowserInstance(p) ==
  /\ ~shutdownEvent
  /\ osState[p] = "unborn"
  /\ \A q \in Pids : q < p => osState[q] # "unborn"
  /\ osState' = [osState EXCEPT ![p] = "running"]
  /\ processes' = processes \cup {p}
  /\ UNCHANGED <<isWindows, killed, doomed, forceTried, shutdownEvent, taPc,
                 taTracked, lateEvent, sVars, fVars, rVars, xVars>>

\* The child exits (by itself, in answer to SIGTERM, or killed); the 'exit'
\* listener runs removeProcess(pid).
ChildExit(p) ==
  /\ osState[p] = "running"
  /\ osState' = [osState EXCEPT ![p] = "exited"]
  /\ processes' = removeProcess(processes, p)
  /\ lateEvent' = (lateEvent \/ taPc = "done")
  /\ UNCHANGED <<isWindows, killed, doomed, forceTried, shutdownEvent, taPc,
                 taTracked, sVars, fVars, rVars, xVars>>

\* The child emits 'error'; the listener runs removeProcess(pid).
ChildError(p) ==
  /\ osState[p] = "running"
  /\ processes' = removeProcess(processes, p)
  /\ lateEvent' = (lateEvent \/ taPc = "done")
  /\ UNCHANGED <<isWindows, osState, killed, doomed, forceTried, shutdownEvent,
                 taPc, taTracked, sVars, fVars, rVars, xVars>>

\* getAliveCount(): getAliveProcesses().length, with its pruning.
GetAliveCount ==
  /\ processes' = getAliveProcesses(processes)
  /\ processes' # processes
  /\ UNCHANGED <<isWindows, osState, killed, doomed, forceTried, shutdownEvent,
                 taPc, taTracked, lateEvent, sVars, fVars, rVars, xVars>>

\* getAliveCount(): the value it returns.
getAliveCount(procs) == Cardinality(getAliveProcesses(procs))

\* getCount(): this.processes.size.
getCount(procs) == Cardinality(procs)

\* getProcessInfo(): one entry per record of the map, with
\* is_alive = data.process && !data.process.killed.
getProcessInfo(procs) == [p \in procs |-> [pid |-> p, is_alive |-> ~killed[p]]]

\* async terminateAll(timeout = 30000)
DefaultTimeout == 30000

\* await new Promise(resolve => setTimeout(resolve, 30000))
GraceWaitMs == 30000

\* the delay terminateAll(timeout) passes to the timer of its grace wait
graceWait(timeout) == GraceWaitMs

\* arguments terminateAll is called with
Timeouts == {5000, DefaultTimeout, 60000}

\* no GET /health request was answered yet
NoResponse == [asked |-> FALSE, running_instances |-> 0,
               browser_instances |-> 0, processes |-> <<>>]

\* stop(): set the shutdown flag and run terminateAll up to its first await:
\* the early return on an empty map, else phase 1, SIGTERM to every record
\* whose handle is not flagged killed.
Stop ==
  /\ taPc = "idle"
  /\ shutdownEvent' = TRUE
  /\ taTracked' = processes
  /\ IF processes = {}
     THEN /\ taPc' = "done"
          /\ UNCHANGED <<processes, killed, doomed>>
     ELSE \E out \in [processes -> KillOutcome] :
            LET sig == {p \in processes : ~killed[p] /\ osState[p] = "running"}
                sent == {p \in sig : out[p] = "sent"}
                err  == {p \in sig : out[p] = "error"}
            IN /\ killed' = [p \in Pids |-> killed[p] \/ p \in sent]
               /\ doomed' = [p \in Pids |-> doomed[p] \/ (isWindows /\ p \in sent)]
               /\ processes' = processes \ err
               /\ taPc' = "grace"
  /\ taTimeout' = DefaultTimeout
  /\ taGraceMs' = IF processes = {} THEN 0 ELSE graceWait(DefaultTimeout)
  /\ UNCHANGED <<isWindows, osState, forceTried, lateEvent, sVars, fVars, rVars,
                 qVars, gVars>>

\* terminateAll(timeout) called with an explicit argument, up to its first
\* await.
TerminateAllWith(timeout) ==
  /\ taPc = "idle"
  /\ taTracked' = processes
  /\ IF processes = {}
     THEN /\ taPc' = "done"
          /\ UNCHANGED <<processes, killed, doomed>>
     ELSE \E out \in [processes -> KillOutcome] :
            LET sig == {p \in processes : ~killed[p] /\ osState[p] = "running"}
                sent == {p \in sig : out[p] = "sent"}
                err  == {p \in sig : out[p] = "error"}
            IN /\ killed' = [p \in Pids |-> killed[p] \/ p \in sent]
               /\ doomed' = [p \in Pids |-> doomed[p] \/ (isWindows /\ p \in sent)]
               /\ processes' = processes \ err
               /\ taPc' = "grace"
  /\ taTimeout' = timeout
  /\ taGraceMs' = IF processes = {} THEN 0 ELSE graceWait(timeout)
  /\ UNCHANGED <<isWindows, osState, forceTried, shutdownEvent, lateEvent,
                 sVars, fVars, rVars, qVars, gVars>>

\* A further SIGTERM/SIGINT while stop() is in progress: the handler calls
\* stop() again, which assigns the flag again and starts a second
\* terminateAll, here up to its first await (SIGTERM to the records not yet
\* flagged).
StopAgain ==
  /\ shutdownEvent
  /\ taPc \in {"grace", "settle"}
  /\ shutdownEvent' = TRUE
  /\ stopAgain' = TRUE
  /\ \E out \in [processes -> KillOutcome] :
       LET sig == {p \in processes : ~killed[p] /\ osState[p] = "running"}
           sent == {p \in sig : out[p] = "sent"}
           err  == {p \in sig : out[p] = "error"}
       IN /\ killed' = [p \in Pids |-> killed[p] \/ p \in sent]
          /\ doomed' = [p \in Pids |-> doomed[p] \/ (isWindows /\ p \in sent)]
          /\ processes' = processes \ err
  /\ UNCHANGED <<isWindows, osState, forceTried, taPc, taTracked, lateEvent,
                 sVars, fVars, rVars, qVars, taTimeout, taGraceMs, sigAgain>>

\* The forced kill of the second terminateAll, when its 30 s timer fires
\* before the first run has finished (process.exit(0) follows the first
\* stop(), so the second run gets no further).
TerminateAllForceAgain ==
  /\ stopAgain
  /\ taPc = "settle"
  /\ \E out \in [processes -> KillOutcome], taskkillOk \in BOOLEAN :
       LET todo == {p \in processes : ~killed[p]}
           live == {p \in todo : osState[p] = "running"}
           byTaskkill == IF isWindows /\ taskkillOk THEN live ELSE {}
           byKill == live \ byTaskkill
           sent == {p \in byKill : out[p] = "sent"}
           err  == {p \in byKill : out[p] = "error"}
       IN /\ forceTried' = [p \in Pids |-> forceTried[p] \/ p \in todo]
          /\ killed' = [p \in Pids |-> killed[p] \/ p \in sent]
          /\ doomed' = [p \in Pids |-> doomed[p] \/ p \in sent \/ p \in byTaskkill]
          /\ processes' = processes \ err
  /\ UNCHANGED <<isWindows, osState, shutdownEvent, taPc, taTracked, lateEvent,
                 sVars, fVars, rVars, xVars>>

\* Mutant of HealthRequest: getCount() and getProcessInfo() are evaluated
\* before getAliveCount() has pruned.
HealthRequest_CountsBeforePruning ==
  /\ processes' = getAliveProcesses(processes)
  /\ health' = [asked |-> TRUE,
                running_instances |-> getAliveCount(processes),
                browser_instances |-> getCount(processes),
                processes |-> getProcessInfo(processes)]
  /\ UNCHANGED <<isWindows, osState, killed, doomed, forceTried, shutdownEvent,
                 taPc, taTracked, lateEvent, sVars, fVars, rVars, taTimeout,
                 taGraceMs, gVars>>

\* GET /health: getAliveCount(), getCount(), getProcessInfo() in one
\* synchronous handler, then res.json.
HealthRequest ==
  /\ processes' = getAliveProcesses(processes)
  /\ health' = [asked |-> TRUE,
                running_instances |-> getAliveCount(processes),
                browser_instances |-> getCount(processes'),
                processes |-> getProcessInfo(processes')]
  /\ UNCHANGED <<isWindows, osState, killed, doomed, forceTried, shutdownEvent,
                 taPc, taTracked, lateEvent, sVars, fVars, rVars, taTimeout,
                 taGraceMs, gVars>>

\* A process reached by an unblockable kill is gone before a wait of
\* terminateAll (30 s, 5 s) elapses.
DoomedAreGone == \A p \in Pids : doomed[p] => osState[p] = "exited"

\* terminateAll after the grace wait: phase 3, the forced kill of every record
\* whose handle is not flagged killed (taskkill /T /F on Windows, with
\* SIGKILL when taskkill raises; SIGKILL elsewhere).
TerminateAllForce ==
  /\ taPc = "grace"
  /\ DoomedAreGone
  /\ \E out \in [processes -> KillOutcome], taskkillOk \in BOOLEAN :
       LET todo == {p \in processes : ~killed[p]}
           live == {p \in todo : osState[p] = "running"}
           byTaskkill == IF isWindows /\ taskkillOk THEN live ELSE {}
           byKill == live \ byTaskkill
           sent == {p \in byKill : out[p] = "sent"}
           err  == {p \in byKill : out[p] = "error"}
       IN /\ forceTried' = [p \in Pids |-> forceTried[p] \/ p \in todo]
          /\ killed' = [p \in Pids |-> killed[p] \/ p \in sent]
          /\ doomed' = [p \in Pids |-> doomed[p] \/ p \in sent \/ p \in byTaskkill]
          /\ processes' = processes \ err
  /\ taPc' = "settle"
  /\ UNCHANGED <<isWindows, osState, shutdownEvent, taTracked, lateEvent, sVars, fVars, rVars, xVars>>

\* Mutant of TerminateAllFinish: only the records whose kill was delivered
\* are dropped, instead of clearing the map.
TerminateAllFinish_OnlySignalled ==
  /\ taPc = "settle"
  /\ DoomedAreGone
  /\ processes' = {p \in processes : ~killed[p]}
  /\ taPc' = "done"
  /\ UNCHANGED <<isWindows, osState, killed, doomed, forceTried, shutdownEvent,
                 taTracked, lateEvent, sVars, fVars, rVars, xVars>>

\* terminateAll after the settle wait: this.processes.clear().
TerminateAllFinish ==
  /\ taPc = "settle"
  /\ DoomedAreGone
  /\ processes' = {}
  /\ taPc' = "done"
  /\ UNCHANGED <<isWindows, osState, killed, doomed, forceTried, shutdownEvent,
                 taTracked, lateEvent, sVars, fVars, rVars, xVars>>

\* ---------------------------------------------------------------------
\* Session process: constants of the code
\* ---------------------------------------------------------------------
\* runBrowserInstanceWithRetry(config, shutdownEvent, maxRetries = 5)
maxRetries == 5
\* startKeepAliveLoop: const maxConsecutiveErrors = 10
maxConsecutiveErrors == 10
\* startKeepAliveLoop: const maxConsecutiveUnhealthyChecks = 3
maxConsecutiveUnhealthyChecks == 3
\* startKeepAliveLoop: clickCounter % 30 === 0 (health-check cadence)
HealthEvery == 30
\* startKeepAliveLoop: clickCounter > 60 (initial grace window)
HealthGrace == 60
\* startKeepAliveLoop: clickCounter >= 360 (credential-reverification cadence)
ReverifyEvery == 360
\* startKeepAliveLoop: for (let i = 0; i < 10; i++) one-second waits
WaitSeconds == 10
\* runBrowserInstanceWithRetry: Math.min(30, 5 * attempt)
BackoffBase == 5
BackoffCap == 30

\* clickCounter is not bounded by the code (a tick that leaves through
\* `continue` or through an exception skips the reset): ticks are explored
\* while clickCounter is below this bound.
MaxClick == 362

\* getWsStatus() results
Status == {"CONNECTED", "IDLE", "CONNECTING", "UNKNOWN"}

\* Substrings the verification looks for in page.url() ...
UrlMarkers == {"accounts.google.com", "ServiceLogin"}
\* ... and in page.title()
TitleMarkers == {"Sign in", "login-zh", "Available regions", "not available",
                 "unavailable-zh", "403", "Forbidden"}

\* page.url(): the markers it contains, or the blank placeholder about:blank
Urls == [blank : {FALSE}, has : SUBSET UrlMarkers]
          \cup {[blank |-> TRUE, has |-> {}]}
Titles == SUBSET TitleMarkers

NoUrl == [blank |-> FALSE, has |-> {"-"}]
NoTitle == {"-"}

SessionPc == {"main", "launch", "verify", "enter", "loop", "wait", "recover",
              "finally", "settledOk", "settledErr", "backoff", "exited"}

NoEv == [kind |-> "none", prev |-> "-", cur |-> "-", recheck |-> "-",
         reconnects |-> 0, rc |-> "-", post |-> "-"]

\* ---------------------------------------------------------------------
\* runBrowserInstance
\* ---------------------------------------------------------------------

\* runBrowserInstanceWithRetry starts an attempt: runBrowserInstance up to
\* browser launch.  No cookies: the error is logged and the function
\* returns.  No executable path for this platform: it throws before `try`.
RunnerStart ==
  /\ sPc = "main"
  /\ browser' = "none" /\ context' = "none" /\ page' = "none"
  /\ closeLog' = <<>>
  /\ finalUrl' = NoUrl /\ pageTitle' = NoTitle
  /\ loopState' = "none"
  /\ IF ~hasCookies
     THEN /\ outcome' = "Failed" /\ failReason' = "NoCookies"
          /\ sPc' = "settledOk"
     ELSE IF ~platformOk
     THEN /\ outcome' = "Failed" /\ failReason' = "UnsupportedPlatform"
          /\ sPc' = "settledErr"
     ELSE /\ outcome' = "none" /\ failReason' = "-"
          /\ sPc' = "launch"
  /\ UNCHANGED <<attempt, shutdown, cfgVars, loopVars, delaySeconds, exitCode,
                 pmVars, fVars, rVars, xVars>>

\* try { launch; newContext; newPage; goto } : the first call that raises
\* sends control to the catch block (goto wraps its error in a
\* KeepAliveError), which logs and falls into finally.
OpenStage == {"launch", "newContext", "newPage", "goto", "ok"}

RunnerOpen ==
  /\ sPc = "launch"
  /\ \E fails \in OpenStage :
       /\ browser' = IF fails = "launch" THEN "none" ELSE "open"
       /\ context' = IF fails \in {"launch", "newContext"} THEN "none" ELSE "open"
       /\ page' = IF fails \in {"launch", "newContext", "newPage"} THEN "none" ELSE "open"
       /\ IF fails = "ok"
          THEN /\ sPc' = "verify"
               /\ UNCHANGED <<outcome, failReason>>
          ELSE /\ sPc' = "finally"
               /\ outcome' = "Failed"
               /\ failReason' = IF fails = "goto" THEN "NavigationFailure"
                                ELSE "BrowserError"
  /\ UNCHANGED <<attempt, shutdown, cfgVars, closeLog, navVars, loopState,
                 loopVars, delaySeconds, exitCode, pmVars, fVars, rVars, xVars>>


\* Mutant of verifyOutcome: only the accounts.google.com redirect is
\* recognised (the check of an earlier revision of browserInstance.js).
verifyOutcome_UrlOnly(url, title) ==
  IF "accounts.google.com" \in url.has THEN "CookieExpired" ELSE "ok"

\* Mutant of verifyOutcome: the region check comes before the login check.
verifyOutcome_RegionFirst(url, title) ==
  IF \/ "Available regions" \in title
     \/ "not available" \in title
     \/ "unavailable-zh" \in title
  THEN "RegionBlocked"
  ELSE IF \/ "accounts.google.com" \in url.has
          \/ "ServiceLogin" \in url.has
          \/ "Sign in" \in title
          \/ "login-zh" \in title
  THEN "CookieExpired"
  ELSE IF "403" \in title \/ "Forbidden" \in title
  THEN "IpBlocked"
  ELSE IF url.blank
  THEN "LoadFailure"
  ELSE "ok"

\* The four checks of the verification, in the order of the code.
\* ("login-zh" and "unavailable-zh" stand for the Chinese title markers.)
verifyOutcome(url, title) ==
  IF \/ "accounts.google.com" \in url.has
     \/ "ServiceLogin" \in url.has
     \/ "Sign in" \in title
     \/ "login-zh" \in title
  THEN "CookieExpired"
  ELSE IF \/ "Available regions" \in title
          \/ "not available" \in title
          \/ "unavailable-zh" \in title
  THEN "RegionBlocked"
  ELSE IF "403" \in title \/ "Forbidden" \in title
  THEN "IpBlocked"
  ELSE IF url.blank
  THEN "LoadFailure"
  ELSE "ok"

\* finalUrl = page.url(); pageTitle = page.title() ('' when it raises);
\* then the checks: a match throws a KeepAliveError, caught and logged.
RunnerVerify ==
  /\ sPc = "verify"
  /\ \E url \in Urls, title \in Titles :
       /\ finalUrl' = url
       /\ pageTitle' = title
       /\ IF verifyOutcome(url, title) = "ok"
          THEN /\ sPc' = "enter"
               /\ UNCHANGED <<outcome, failReason>>
          ELSE /\ sPc' = "finally"
               /\ outcome' = "Failed"
               /\ failReason' = verifyOutcome(url, title)
  /\ UNCHANGED <<attempt, shutdown, cfgVars, resVars, loopState, loopVars,
                 delaySeconds, exitCode, pmVars, fVars, rVars, xVars>>

\* page.waitForTimeout(2000); handlePopupDialog (its first wait is outside
\* its try); then startKeepAliveLoop is called: the initial getWsStatus and
\* the counters.
RunnerEnterLoop ==
  /\ sPc = "enter"
  /\ \E waitOk \in BOOLEAN, st \in Status :
       IF waitOk
       THEN /\ sPc' = "loop"
            /\ loopState' = "running"
            /\ lastWsStatus' = st
            /\ lastRead' = st
            /\ clickCounter' = 0
            /\ consecutiveErrors' = 0
            /\ consecutiveUnhealthyChecks' = 0
            /\ waitI' = 0
            /\ ev' = NoEv
            /\ sinceHealth' = 0
            /\ UNCHANGED <<outcome, failReason>>
       ELSE /\ sPc' = "finally"
            /\ outcome' = "Failed"
            /\ failReason' = "BrowserError"
            /\ UNCHANGED <<loopState, loopVars>>
  /\ UNCHANGED <<attempt, shutdown, cfgVars, resVars, navVars, delaySeconds,
                 exitCode, pmVars, fVars, rVars, xVars>>

\* ---------------------------------------------------------------------
\* startKeepAliveLoop
\* ---------------------------------------------------------------------

\* clickCounter % 30 === 0 && clickCounter > 60
healthCheckDue(c) == c % HealthEvery = 0 /\ c > HealthGrace

\* consecutiveUnhealthyChecks >= maxConsecutiveUnhealthyChecks
unhealthyCeilingReached(n) == n >= maxConsecutiveUnhealthyChecks


\* Mutant of errorCeilingReached: the ceiling test is off by one.
errorCeilingReached_OffByOne(n) == n > maxConsecutiveErrors

\* consecutiveErrors >= maxConsecutiveErrors
errorCeilingReached(n) == n >= maxConsecutiveErrors

\* currentWsStatus === 'UNKNOWN' && lastWsStatus === 'CONNECTED'
glitchCandidate(last, cur) == cur = "UNKNOWN" /\ last = "CONNECTED"


\* Mutant of glitchContinues: the result of the re-read is ignored, the
\* tick falls through to the reconnect.
glitchContinues_Never(recheck) == FALSE

\* recheckStatus === 'CONNECTED': lastWsStatus = recheckStatus; continue
glitchContinues(recheck) == recheck = "CONNECTED"


\* Mutant of needsReconnect: the comparison with the recorded status is
\* missing, every non-CONNECTED read reconnects.
needsReconnect_IgnoresChange(last, cur) == cur # "CONNECTED"

\* Mutant of needsReconnect: a read of IDLE reconnects even when IDLE is
\* the recorded status.
needsReconnect_AlsoWhenStillIdle(last, cur) ==
  cur # "CONNECTED" /\ (cur # last \/ cur = "IDLE")

\* currentWsStatus !== lastWsStatus, then currentWsStatus !== 'CONNECTED'
needsReconnect(last, cur) == cur # last /\ cur # "CONNECTED"

\* After reconnectWs: lastWsStatus = await getWsStatus(...) and then, at the
\* end of the `if (currentWsStatus !== lastWsStatus)` block,
\* lastWsStatus = currentWsStatus.
recordedStatus(cur, post) == cur

\* if (clickCounter >= 360) clickCounter = 0
afterReverify(c) == IF c >= ReverifyEvery THEN 0 ELSE c

\* The catch block of the loop: count the error, rethrow at the ceiling
\* (caught and logged by runBrowserInstance), else go on to the 2 s delay.
LoopCatch(reason) ==
  /\ consecutiveErrors' = consecutiveErrors + 1
  /\ IF errorCeilingReached(consecutiveErrors + 1)
     THEN /\ sPc' = "finally"
          /\ loopState' = "raised"
          /\ outcome' = "Failed"
          /\ failReason' = reason
     ELSE /\ sPc' = "recover"
          /\ UNCHANGED <<loopState, outcome, failReason>>

\* The end of a tick that did not raise: reverification reset, error
\* counter reset, then the 10 s wait.
TickTail(cc1) ==
  /\ clickCounter' = afterReverify(cc1)
  /\ consecutiveErrors' = 0
  /\ sPc' = "wait"
  /\ waitI' = 0
  /\ UNCHANGED <<loopState, outcome, failReason>>

TickEnabled == sPc = "loop" /\ ~shutdown /\ clickCounter < MaxClick

\* The health-check inputs of a tick: only a due check reads the page.
HealthInputs == IF healthCheckDue(clickCounter) THEN BOOLEAN ELSE {TRUE}

\* consecutiveUnhealthyChecks after the health-check step
unhealthyAfter(healthy) ==
  IF healthCheckDue(clickCounter)
  THEN IF healthy THEN 0 ELSE consecutiveUnhealthyChecks + 1
  ELSE consecutiveUnhealthyChecks

\* sinceHealth after the health-check step of a tick
sinceHealthAfter ==
  IF healthCheckDue(clickCounter) THEN 0 ELSE sinceHealth + 1

\* The health-check step throws 'persistently unhealthy'
healthThrows(healthy) ==
  /\ healthCheckDue(clickCounter)
  /\ ~healthy
  /\ unhealthyCeilingReached(consecutiveUnhealthyChecks + 1)

\* A tick whose health check fails at the ceiling: the throw is inside the
\* try of the loop, so the loop's own catch block takes it.
TickUnhealthy ==
  /\ TickEnabled
  /\ healthThrows(FALSE)
  /\ consecutiveUnhealthyChecks' = consecutiveUnhealthyChecks + 1
  /\ sinceHealth' = sinceHealthAfter
  /\ LoopCatch("PersistentlyUnhealthy")
  /\ ev' = [kind |-> "raised", prev |-> lastWsStatus, cur |-> "-",
            recheck |-> "-", reconnects |-> 0, rc |-> "-", post |-> "-"]
  /\ UNCHANGED <<lastWsStatus, clickCounter, waitI, lastRead>>
  /\ UNCHANGED <<attempt, shutdown, cfgVars, resVars, navVars, delaySeconds,
                 exitCode, pmVars, fVars, rVars, xVars>>

\* reconnectWs(page, logger, maxRetries = 3)
reconnectMaxRetries == 3

\* What one attempt of reconnectWs comes to:
\*   "connected"   waitForWsConnected returned true: return the status read
\*   "timeout"     disconnect or connect failed, or the 15 s wait timed out
\*   "caught"      a call of the try block raised; the wait of the catch
\*                 block (if any) returned
\*   "catchRaises" a call of the try block raised, and so does
\*                 page.waitForTimeout(3000) of the catch block
AttemptOutcome == {"connected", "timeout", "caught", "catchRaises"}

\* The attempts at which reconnectWs stops before the for loop ends.  The
\* catch block waits only when attempt < maxRetries.
reconnectStops(outs) ==
  {k \in 1..reconnectMaxRetries :
     \/ outs[k] = "connected"
     \/ outs[k] = "catchRaises" /\ k < reconnectMaxRetries}

\* reconnectWs: "connected" (returns the status read), "exhausted" (returns
\* 'UNKNOWN' after the last attempt) or "raised".
reconnectWs(outs) ==
  IF reconnectStops(outs) = {} THEN "exhausted"
  ELSE LET k == CHOOSE i \in reconnectStops(outs) :
                  \A j \in reconnectStops(outs) : i <= j
       IN IF outs[k] = "connected" THEN "connected" ELSE "raised"

\* Every result reconnectWs can come to.
ReconnectResults ==
  {reconnectWs(outs) : outs \in [1..reconnectMaxRetries -> AttemptOutcome]}

\* await reconnectWs(...), then lastWsStatus = await getWsStatus(...) and,
\* at the end of the block, lastWsStatus = currentWsStatus.
TickReconnect(cc1, cur, recheck) ==
  \E rc \in ReconnectResults :
    IF rc # "raised"
    THEN \E post \in Status :
           /\ lastWsStatus' = recordedStatus(cur, post)
           /\ lastRead' = cur
           /\ TickTail(cc1)
           /\ ev' = [kind |-> "ok", prev |-> lastWsStatus, cur |-> cur,
                     recheck |-> recheck, reconnects |-> 1,
                     rc |-> rc, post |-> post]
    ELSE /\ clickCounter' = cc1
         /\ LoopCatch("LoopError")
         /\ ev' = [kind |-> "raised", prev |-> lastWsStatus, cur |-> cur,
                   recheck |-> "-", reconnects |-> 1,
                   rc |-> rc, post |-> "-"]
         /\ UNCHANGED <<lastWsStatus, lastRead, waitI>>

\* A tick that reads UNKNOWN while the recorded status is CONNECTED:
\* diagnostics, the 2 s wait, the re-read.
TickGlitch ==
  /\ TickEnabled
  /\ \E healthy \in HealthInputs :
       /\ ~healthThrows(healthy)
       /\ consecutiveUnhealthyChecks' = unhealthyAfter(healthy)
  /\ sinceHealth' = sinceHealthAfter
  /\ glitchCandidate(lastWsStatus, "UNKNOWN")
  /\ LET cc1 == clickCounter + 1
         cur == "UNKNOWN"
     IN \E waitOk \in BOOLEAN, recheck \in Status :
          IF ~waitOk
          THEN /\ recheck = "UNKNOWN"
               /\ clickCounter' = cc1
               /\ LoopCatch("LoopError")
               /\ ev' = [kind |-> "raised", prev |-> lastWsStatus, cur |-> cur,
                         recheck |-> "-", reconnects |-> 0, rc |-> "-", post |-> "-"]
               /\ UNCHANGED <<lastWsStatus, lastRead, waitI>>
          ELSE IF glitchContinues(recheck)
          THEN /\ lastWsStatus' = recheck
               /\ lastRead' = recheck
               /\ clickCounter' = cc1
               /\ sPc' = "loop"
               /\ ev' = [kind |-> "glitch", prev |-> lastWsStatus, cur |-> cur,
                         recheck |-> recheck, reconnects |-> 0, rc |-> "-", post |-> "-"]
               /\ UNCHANGED <<consecutiveErrors, waitI, loopState, outcome,
                              failReason>>
          ELSE IF needsReconnect(lastWsStatus, cur)
          THEN TickReconnect(cc1, cur, recheck)
          ELSE /\ lastWsStatus' = cur
               /\ lastRead' = cur
               /\ TickTail(cc1)
               /\ ev' = [kind |-> "ok", prev |-> lastWsStatus, cur |-> cur,
                         recheck |-> recheck, reconnects |-> 0, rc |-> "-", post |-> "-"]
  /\ UNCHANGED <<attempt, shutdown, cfgVars, resVars, navVars, delaySeconds,
                 exitCode, pmVars, fVars, rVars, xVars>>

\* Every other tick: the status is unchanged, or it changed (reconnect
\* unless the new status is CONNECTED).
TickPlain ==
  /\ TickEnabled
  /\ \E healthy \in HealthInputs :
       /\ ~healthThrows(healthy)
       /\ consecutiveUnhealthyChecks' = unhealthyAfter(healthy)
  /\ sinceHealth' = sinceHealthAfter
  /\ LET cc1 == clickCounter + 1
     IN \E cur \in Status :
          /\ ~glitchCandidate(lastWsStatus, cur)
          /\ IF needsReconnect(lastWsStatus, cur)
             THEN TickReconnect(cc1, cur, "-")
             ELSE /\ lastWsStatus' = cur
                  /\ lastRead' = cur
                  /\ TickTail(cc1)
                  /\ ev' = [kind |-> "ok", prev |-> lastWsStatus, cur |-> cur,
                            recheck |-> "-", reconnects |-> 0, rc |-> "-", post |-> "-"]
  /\ UNCHANGED <<attempt, shutdown, cfgVars, resVars, navVars, delaySeconds,
                 exitCode, pmVars, fVars, rVars, xVars>>

\* while (!shouldShutdown()) fails: the loop returns normally.
LoopExit ==
  /\ sPc = "loop"
  /\ shutdown
  /\ loopState' = "returned"
  /\ outcome' = "Completed"
  /\ sPc' = "finally"
  /\ ev' = NoEv
  /\ UNCHANGED <<lastWsStatus, clickCounter, consecutiveErrors,
                 consecutiveUnhealthyChecks, waitI, lastRead, sinceHealth>>
  /\ UNCHANGED <<attempt, shutdown, cfgVars, resVars, navVars, failReason,
                 delaySeconds, exitCode, pmVars, fVars, rVars, xVars>>

\* One round of the interruptible wait: return on shutdown, else
\* page.waitForTimeout(1000), which may raise into the loop's catch block.
WaitStep ==
  /\ sPc = "wait"
  /\ ev' = NoEv
  /\ IF shutdown
     THEN /\ loopState' = "returned"
          /\ outcome' = "Completed"
          /\ sPc' = "finally"
          /\ waitI' = 0
          /\ UNCHANGED <<consecutiveErrors, failReason>>
     ELSE \E waitOk \in BOOLEAN :
            IF waitOk
            THEN /\ waitI' = waitI + 1
                 /\ sPc' = IF waitI + 1 >= WaitSeconds THEN "loop" ELSE "wait"
                 /\ UNCHANGED <<consecutiveErrors, loopState, outcome, failReason>>
            ELSE /\ LoopCatch("LoopError")
                 /\ waitI' = 0
  /\ UNCHANGED <<lastWsStatus, clickCounter, consecutiveUnhealthyChecks, lastRead,
                 sinceHealth>>
  /\ UNCHANGED <<attempt, shutdown, cfgVars, resVars, navVars, delaySeconds,
                 exitCode, pmVars, fVars, rVars, xVars>>

\* The delay of the loop's catch block, page.waitForTimeout(2000): when it
\* raises, the error leaves startKeepAliveLoop.
Recover ==
  /\ sPc = "recover"
  /\ ev' = NoEv
  /\ \E waitOk \in BOOLEAN :
       IF waitOk
       THEN /\ sPc' = "loop"
            /\ UNCHANGED <<loopState, outcome, failReason>>
       ELSE /\ sPc' = "finally"
            /\ loopState' = "raised"
            /\ outcome' = "Failed"
            /\ failReason' = "LoopError"
  /\ UNCHANGED <<lastWsStatus, clickCounter, consecutiveErrors,
                 consecutiveUnhealthyChecks, waitI, lastRead, sinceHealth>>
  /\ UNCHANGED <<attempt, shutdown, cfgVars, resVars, navVars, delaySeconds,
                 exitCode, pmVars, fVars, rVars, xVars>>

\* ---------------------------------------------------------------------
\* runBrowserInstance: catch / finally; runBrowserInstanceWithRetry; main
\* ---------------------------------------------------------------------

\* The locals of startKeepAliveLoop no longer exist once runBrowserInstance
\* has settled.
LoopLocalsGone ==
  /\ lastWsStatus' = "UNKNOWN"
  /\ lastRead' = "UNKNOWN"
  /\ clickCounter' = 0
  /\ consecutiveErrors' = 0
  /\ consecutiveUnhealthyChecks' = 0
  /\ waitI' = 0
  /\ ev' = NoEv
  /\ sinceHealth' = 0

closeResult(r, fails) ==
  IF r = "open" THEN (IF fails THEN "closeFailed" ELSE "closed") ELSE r


\* Mutant of RunnerFinally: the browser is not closed.
RunnerFinally_BrowserLeftOpen ==
  /\ sPc = "finally"
  /\ \E pf \in (IF page = "open" THEN BOOLEAN ELSE {FALSE}),
        cf \in (IF context = "open" THEN BOOLEAN ELSE {FALSE}) :
       /\ page' = closeResult(page, pf)
       /\ context' = closeResult(context, cf)
  /\ closeLog' = (IF page = "open" THEN <<"page">> ELSE <<>>)
                   \o (IF context = "open" THEN <<"context">> ELSE <<>>)
  /\ sPc' = "settledOk"
  /\ LoopLocalsGone
  /\ UNCHANGED <<attempt, shutdown, cfgVars, navVars, outcome, failReason,
                 loopState, delaySeconds, exitCode, browser, pmVars, fVars, rVars, xVars>>

\* Mutant of RunnerFinally: one try/catch around the three closes, so the
\* first close that fails skips the later ones.
RunnerFinally_StopsAtFirstFailure ==
  /\ sPc = "finally"
  /\ \E pf \in (IF page = "open" THEN BOOLEAN ELSE {FALSE}),
        cf \in (IF context = "open" THEN BOOLEAN ELSE {FALSE}),
        bf \in (IF browser = "open" THEN BOOLEAN ELSE {FALSE}) :
       /\ page' = closeResult(page, pf)
       /\ context' = IF pf THEN context ELSE closeResult(context, cf)
       /\ browser' = IF pf \/ cf THEN browser ELSE closeResult(browser, bf)
       /\ closeLog' = (IF page = "open" THEN <<"page">> ELSE <<>>)
                        \o (IF context = "open" /\ ~pf THEN <<"context">> ELSE <<>>)
                        \o (IF browser = "open" /\ ~pf /\ ~cf
                            THEN <<"browser">> ELSE <<>>)
  /\ sPc' = "settledOk"
  /\ LoopLocalsGone
  /\ UNCHANGED <<attempt, shutdown, cfgVars, navVars, outcome, failReason,
                 loopState, delaySeconds, exitCode, pmVars, fVars, rVars, xVars>>

\* finally: close page, context, browser, each if it was created, each in
\* its own try/catch.  The catch block before it only logs, so the promise
\* of runBrowserInstance resolves.
RunnerFinally ==
  /\ sPc = "finally"
  /\ \E pf \in (IF page = "open" THEN BOOLEAN ELSE {FALSE}),
        cf \in (IF context = "open" THEN BOOLEAN ELSE {FALSE}),
        bf \in (IF browser = "open" THEN BOOLEAN ELSE {FALSE}) :
       /\ page' = closeResult(page, pf)
       /\ context' = closeResult(context, cf)
       /\ browser' = closeResult(browser, bf)
  /\ closeLog' = (IF page = "open" THEN <<"page">> ELSE <<>>)
                   \o (IF context = "open" THEN <<"context">> ELSE <<>>)
                   \o (IF browser = "open" THEN <<"browser">> ELSE <<>>)
  /\ sPc' = "settledOk"
  /\ LoopLocalsGone
  /\ UNCHANGED <<attempt, shutdown, cfgVars, navVars, outcome, failReason,
                 loopState, delaySeconds, exitCode, pmVars, fVars, rVars, xVars>>

\* Mutant of RetryBreak: a resolved invocation is followed by the backoff
\* wait and another attempt.
RetryBreak_Restarts ==
  /\ sPc = "settledOk"
  /\ sPc' = "backoff"
  /\ delaySeconds' = BackoffBase * attempt
  /\ UNCHANGED <<attempt, shutdown, cfgVars, resVars, navVars, outcome,
                 failReason, loopState, loopVars, exitCode, pmVars, fVars, rVars, xVars>>

\* await runBrowserInstance(...) resolved: break.  The wrapper resolves,
\* main attaches only a .catch, and the process ends with exit code 0.
RetryBreak ==
  /\ sPc = "settledOk"
  /\ sPc' = "exited"
  /\ exitCode' = 0
  /\ UNCHANGED <<attempt, shutdown, cfgVars, resVars, navVars, outcome,
                 failReason, loopState, loopVars, delaySeconds, pmVars, fVars, rVars, xVars>>

Min(a, b) == IF a < b THEN a ELSE b

\* Mutant of backoffDelay: the delay does not grow with the attempt.
backoffDelay_Flat(k) == BackoffBase

\* delaySeconds = Math.min(30, 5 * attempt)
backoffDelay(k) == Min(BackoffCap, BackoffBase * k)

\* await runBrowserInstance(...) rejected: wait and retry while
\* attempt < maxRetries, else rethrow: main's .catch calls process.exit(1).
RetryCatch ==
  /\ sPc = "settledErr"
  /\ IF attempt < maxRetries
     THEN /\ delaySeconds' = backoffDelay(attempt)
          /\ sPc' = "backoff"
          /\ UNCHANGED exitCode
     ELSE /\ sPc' = "exited"
          /\ exitCode' = 1
          /\ UNCHANGED delaySeconds
  /\ UNCHANGED <<attempt, shutdown, cfgVars, resVars, navVars, outcome,
                 failReason, loopState, loopVars, pmVars, fVars, rVars, xVars>>

\* The backoff timer fires: attempt++ and the next iteration of the for loop.
BackoffDone ==
  /\ sPc = "backoff"
  /\ attempt' = attempt + 1
  /\ sPc' = "main"
  /\ UNCHANGED <<shutdown, cfgVars, resVars, navVars, outcome, failReason,
                 loopState, loopVars, delaySeconds, exitCode, pmVars, fVars, rVars, xVars>>

\* SIGTERM or SIGINT reaches the session process: shutdownEvent.isSet
\* becomes () => true.
Signal ==
  /\ sPc # "exited"
  /\ shutdown' = TRUE
  /\ UNCHANGED <<sPc, attempt, cfgVars, resVars, navVars, outcome, failReason,
                 loopState, loopVars, delaySeconds, exitCode, pmVars, fVars, rVars, xVars>>

\* Mutant of SignalAgain: the handler clears the flag.
SignalAgain_Clears ==
  /\ sPc # "exited"
  /\ shutdown
  /\ shutdown' = FALSE
  /\ sigAgain' = TRUE
  /\ UNCHANGED <<sPc, attempt, cfgVars, resVars, navVars, outcome, failReason,
                 loopState, loopVars, delaySeconds, exitCode, pmVars, fVars,
                 rVars, qVars, taTimeout, taGraceMs, stopAgain>>

\* SIGTERM or SIGINT reaches the session process again: the handler assigns
\* shutdownEvent.isSet = () => true once more.
SignalAgain ==
  /\ sPc # "exited"
  /\ shutdown
  /\ shutdown' = TRUE
  /\ sigAgain' = TRUE
  /\ UNCHANGED <<sPc, attempt, cfgVars, resVars, navVars, outcome, failReason,
                 loopState, loopVars, delaySeconds, exitCode, pmVars, fVars,
                 rVars, qVars, taTimeout, taGraceMs, stopAgain>>

\* ---------------------------------------------------------------------
\* reconnectWs, statement by statement (iframeHelper.js)
\* ---------------------------------------------------------------------
\* dismissInteractionModal, clickDisconnect, clickConnect and getWsStatus
\* catch their own errors; page.waitForTimeout may raise.  Neither
\* reconnectWs nor waitForWsConnected receives the shutdown flag.

ReconnectPc == {"idle", "dismiss", "disconnect", "retryWaitD", "waitD", "read",
                "connect", "retryWaitC", "waitC", "poll", "pollWait",
                "timeoutWait", "catch", "returned", "raised"}

\* how an attempt ends: the `continue` after a failed click, the poll that
\* saw CONNECTED, the poll that timed out, the catch block
AttemptEnd == {"continue", "connected", "timeout", "caught"}

NoAttempt == [attempt |-> 0, steps |-> <<>>, how |-> "-"]

\* waitForWsConnected(page, logger, 15): each round of its loop waits 1 s,
\* so the 15 s budget is used up after at most 15 rounds.
pollBudget == 15

\* Mutant of rNextAttempt: the for loop has no upper bound on attempt.
rNextAttempt_Unbounded(steps, how) ==
  /\ rLast' = [attempt |-> rAttempt, steps |-> steps, how |-> how]
  /\ rSteps' = <<>>
  /\ rPolls' = 0
  /\ rAttempt' = rAttempt + 1
  /\ rPc' = "dismiss"
  /\ UNCHANGED rResult

\* The end of an attempt that does not return: attempt++ and the loop test;
\* after the last attempt, `return 'UNKNOWN'`.
rNextAttempt(steps, how) ==
  /\ rLast' = [attempt |-> rAttempt, steps |-> steps, how |-> how]
  /\ rSteps' = <<>>
  /\ rPolls' = 0
  /\ IF rAttempt < reconnectMaxRetries
     THEN /\ rAttempt' = rAttempt + 1
          /\ rPc' = "dismiss"
          /\ UNCHANGED rResult
     ELSE /\ rPc' = "returned"
          /\ rResult' = "UNKNOWN"
          /\ UNCHANGED rAttempt

\* page.waitForTimeout raised inside the try: control goes to the catch.
rRaise ==
  /\ rPc' = "catch"
  /\ rPolls' = 0
  /\ UNCHANGED <<rAttempt, rSteps, rLast, rResult>>

\* A step that stays in the attempt.
rGoto(pc, step) ==
  /\ rPc' = pc
  /\ rSteps' = Append(rSteps, step)
  /\ UNCHANGED <<rAttempt, rLast, rResult, rPolls>>

\* The tick read a status that differs from the recorded one and is not
\* CONNECTED: await reconnectWs(page, logger), attempt = 1.
ReconnectCall ==
  /\ sPc = "loop"
  /\ rPc = "idle"
  /\ \E cur \in Status : needsReconnect(lastWsStatus, cur)
  /\ rPc' = "dismiss"
  /\ rAttempt' = 1
  /\ rSteps' = <<>>
  /\ UNCHANGED <<rLast, rResult, rPolls, pmVars, sVars, fVars, xVars>>

\* await dismissInteractionModal(page, logger)
ReconnectDismiss ==
  /\ rPc = "dismiss"
  /\ rGoto("disconnect", "dismiss")
  /\ UNCHANGED <<pmVars, sVars, fVars, xVars>>

\* disconnected = await clickDisconnect(...);
\* if (!disconnected && attempt < maxRetries) { wait 2000; continue; }
ReconnectDisconnect ==
  /\ rPc = "disconnect"
  /\ \E disconnected \in BOOLEAN :
       rGoto(IF ~disconnected /\ rAttempt < reconnectMaxRetries
             THEN "retryWaitD" ELSE "waitD", "disconnect")
  /\ UNCHANGED <<pmVars, sVars, fVars, xVars>>

\* The wait before the `continue` of a failed click (disconnect or connect).
ReconnectRetryWait ==
  /\ rPc \in {"retryWaitD", "retryWaitC"}
  /\ \E waitOk \in BOOLEAN :
       IF waitOk
       THEN rNextAttempt(Append(rSteps, "wait"), "continue")
       ELSE rRaise
  /\ UNCHANGED <<pmVars, sVars, fVars, xVars>>

\* await page.waitForTimeout(2000) after the disconnect click
ReconnectWaitDisconnected ==
  /\ rPc = "waitD"
  /\ \E waitOk \in BOOLEAN :
       IF waitOk THEN rGoto("read", "wait") ELSE rRaise
  /\ UNCHANGED <<pmVars, sVars, fVars, xVars>>

\* disconnectStatus = await getWsStatus(...): logged only
ReconnectRead ==
  /\ rPc = "read"
  /\ rGoto("connect", "read")
  /\ UNCHANGED <<pmVars, sVars, fVars, xVars>>

\* connected = await clickConnect(...);
\* if (!connected && attempt < maxRetries) { wait 2000; continue; }
ReconnectConnect ==
  /\ rPc = "connect"
  /\ \E connected \in BOOLEAN :
       rGoto(IF ~connected /\ rAttempt < reconnectMaxRetries
             THEN "retryWaitC" ELSE "waitC", "connect")
  /\ UNCHANGED <<pmVars, sVars, fVars, xVars>>

\* await page.waitForTimeout(2000) after the connect click
ReconnectWaitConnected ==
  /\ rPc = "waitC"
  /\ \E waitOk \in BOOLEAN :
       IF waitOk THEN rGoto("poll", "wait") ELSE rRaise
  /\ UNCHANGED <<pmVars, sVars, fVars, xVars>>

\* waitForWsConnected: one getWsStatus of its loop.  CONNECTED: it returns
\* true and reconnectWs returns the status it reads next.
ReconnectPoll ==
  /\ rPc = "poll"
  /\ LET steps == IF rSteps # <<>> /\ rSteps[Len(rSteps)] = "poll"
                  THEN rSteps ELSE Append(rSteps, "poll")
     IN \E status \in Status :
          IF status = "CONNECTED"
          THEN \E after \in Status :
                 /\ rPc' = "returned"
                 /\ rResult' = after
                 /\ rLast' = [attempt |-> rAttempt, steps |-> steps,
                              how |-> "connected"]
                 /\ rSteps' = <<>>
                 /\ rPolls' = 0
                 /\ UNCHANGED rAttempt
          ELSE /\ rPc' = "pollWait"
               /\ rSteps' = steps
               /\ UNCHANGED <<rAttempt, rLast, rResult, rPolls>>
  /\ UNCHANGED <<pmVars, sVars, fVars, xVars>>

\* waitForWsConnected: page.waitForTimeout(1000), then the test of the
\* 15 s budget; when it is used up: return false, the status is read and
\* logged, and `if (attempt < maxRetries) wait 2000`.
ReconnectPollWait ==
  /\ rPc = "pollWait"
  /\ \E waitOk \in BOOLEAN,
        expired \in (IF rPolls + 1 >= pollBudget THEN {TRUE} ELSE BOOLEAN) :
       IF ~waitOk
       THEN rRaise
       ELSE IF ~expired
       THEN /\ rPc' = "poll"
            /\ rPolls' = rPolls + 1
            /\ UNCHANGED <<rAttempt, rSteps, rLast, rResult>>
       ELSE IF rAttempt < reconnectMaxRetries
       THEN /\ rPc' = "timeoutWait"
            /\ rPolls' = 0
            /\ UNCHANGED <<rAttempt, rSteps, rLast, rResult>>
       ELSE rNextAttempt(rSteps, "timeout")
  /\ UNCHANGED <<pmVars, sVars, fVars, xVars>>

\* The wait after a poll that timed out, before the next attempt.
ReconnectTimeoutWait ==
  /\ rPc = "timeoutWait"
  /\ \E waitOk \in BOOLEAN :
       IF waitOk THEN rNextAttempt(rSteps, "timeout") ELSE rRaise
  /\ UNCHANGED <<pmVars, sVars, fVars, xVars>>

\* catch (e): log; if (attempt < maxRetries) await page.waitForTimeout(3000),
\* which is outside any try of reconnectWs: when it raises, the error
\* leaves reconnectWs.
ReconnectCatch ==
  /\ rPc = "catch"
  /\ IF rAttempt < reconnectMaxRetries
     THEN \E waitOk \in BOOLEAN :
            IF waitOk
            THEN rNextAttempt(rSteps, "caught")
            ELSE /\ rPc' = "raised"
                 /\ rLast' = [attempt |-> rAttempt, steps |-> rSteps,
                              how |-> "caught"]
                 /\ rSteps' = <<>>
                 /\ UNCHANGED <<rAttempt, rResult, rPolls>>
     ELSE rNextAttempt(rSteps, "caught")
  /\ UNCHANGED <<pmVars, sVars, fVars, xVars>>

\* ---------------------------------------------------------------------
\* AuthSource (unified-server.js)
\* ---------------------------------------------------------------------

\* number of AUTH_JSON_<n> variables / auth-<n>.json files found; two names
\* may carry the same number (auth-1.json, auth-01.json)
MaxKeys == 3

KeyLists == UNION {[1..n -> Pids] : n \in 0..MaxKeys}

\* What a credential source comes to:
\*   "unreadable"  _getAuthContent gives undefined, null or ''
\*   "malformed"   JSON.parse raises, or gives null (reading a property of
\*                 it raises inside the same try)
\*   "falsy"       JSON.parse gives 0, false or ""
\*   "object"      anything else; cookies is absent, [] or a non-empty
\*                 array, storageState is absent or a full state (cookies
\*                 and origins)
Payloads == [kind : {"object"}, cookies : {"absent", "empty", "some"},
             storageState : {"absent", "full"}]

NonPayload(k) == [kind |-> k, cookies |-> "absent", storageState |-> "absent"]

SourceContents ==
  Payloads \cup {NonPayload(k) : k \in {"unreadable", "malformed", "falsy"}}

Range(f) == {f[i] : i \in DOMAIN f}

\* array.sort((a, b) => a - b) of distinct numbers
SortedSeq(S) ==
  CHOOSE q \in [1..Cardinality(S) -> S] :
    /\ Range(q) = S
    /\ \A i, j \in 1..Cardinality(S) : i < j => q[i] < q[j]


\* Mutant of discoverAvailableIndices: the numbers are kept as they were
\* enumerated.
discoverAvailableIndices_AsEnumerated(keys) == keys

\* _discoverAvailableIndices: [...new Set(indices)].sort((a, b) => a - b)
discoverAvailableIndices(keys) == SortedSeq(Range(keys))

\* _preValidateAndFilter, per index: the content is truthy and neither
\* JSON.parse nor authData.accountName raises.
passesPreValidation(index) == authContent[index].kind \in {"falsy", "object"}

failsPreValidation(index) == ~passesPreValidation(index)

\* _preValidateAndFilter: validIndices
preValidateAndFilter(avail) == SelectSeq(avail, passesPreValidation)

\* _preValidateAndFilter: invalidSourceDescriptions
invalidSources(avail) == SelectSeq(avail, failsPreValidation)


\* Mutant of constructorThrows: the constructor never raises.
constructorThrows_Never(avail) == FALSE

\* AuthSource constructor: if (this.availableIndices.length === 0) throw
constructorThrows(avail) == Len(avail) = 0

FleetPc == {"-", "new", "aborted", "constructed", "delay", "monitor", "ended"}

\* new BrowserAutomationServer(): the AuthSource constructor discovers,
\* validates and raises when nothing is left; the error leaves
\* initializeServer (the construction is outside its try) and the process
\* ends before start() is called.
NewServer ==
  /\ fPc = "new"
  /\ LET found == discoverAvailableIndices(authKeys)
         valid == preValidateAndFilter(found)
     IN /\ initialIndices' = found
        /\ availableIndices' = valid
        /\ rejected' = invalidSources(found)
        /\ fPc' = IF constructorThrows(valid) THEN "aborted" ELSE "constructed"
  /\ UNCHANGED <<authKeys, authContent, instances, fI, spawnLog, pmVars, sVars, rVars, xVars>>

\* ---------------------------------------------------------------------
\* InstanceConfig: built by the supervisor, passed on the command line,
\* read by the session process
\* ---------------------------------------------------------------------

\* getAuth(index) returns null
getAuthIsNull(avail, index) ==
  \/ index \notin Range(avail)
  \/ authContent[index].kind \in {"unreadable", "malformed"}

\* _loadInstanceConfigurations: if (!authData) continue
hasAuthData(index) ==
  /\ ~getAuthIsNull(availableIndices, index)
  /\ authContent[index].kind # "falsy"

\* authData.cookies || []
cookiesOrEmpty(c) == IF c = "absent" THEN "empty" ELSE c

\* The authSource object of an instance configuration: index, cookies and
\* names; it has no storageState property.
buildAuthSource(index, authData) ==
  [index |-> index, cookies |-> cookiesOrEmpty(authData.cookies),
   storageState |-> "absent"]

\* _loadInstanceConfigurations()
loadInstanceConfigurations ==
  LET sel == SelectSeq(availableIndices, hasAuthData)
  IN [k \in 1..Len(sel) |-> buildAuthSource(sel[k], authContent[sel[k]])]

PayloadFields == {"cookies", "storageState"}

\* JSON.stringify(config): a property whose value is undefined is left out.
stringifyConfig(cfg) ==
  [index |-> cfg.index,
   fields |-> [f \in {g \in PayloadFields : cfg[g] # "absent"} |-> cfg[f]]]

\* JSON.parse(args[0]); reading a property that is not there gives undefined.
parseConfig(str) ==
  [index |-> str.index,
   cookies |-> IF "cookies" \in DOMAIN str.fields
               THEN str.fields["cookies"] ELSE "absent",
   storageState |-> IF "storageState" \in DOMAIN str.fields
                    THEN str.fields["storageState"] ELSE "absent"]

\* loadCookies(authSource): authSource.cookies, else storageState.cookies
\* when authSource.cookies is falsy (an empty array is not); [] when there
\* is no array.
loadCookies(as) ==
  LET c == IF as.cookies = "absent" /\ as.storageState # "absent"
           THEN "some" ELSE as.cookies
  IN IF c = "absent" THEN "empty" ELSE c

\* runBrowserInstance: what the browser context is created from, or
\* "notOpened" when the function returns at the cookie check.
sessionContext(as) ==
  IF loadCookies(as) # "some" THEN "notOpened"
  ELSE IF as.storageState # "absent" THEN as.storageState
  ELSE "cookiesOnly"

\* ---------------------------------------------------------------------
\* _startBrowserInstances
\* ---------------------------------------------------------------------

\* spawnBrowserInstance(config):
\*   "ok"     the child runs
\*   "throws" spawn raises; nothing is tracked
\*   "error"  spawn returns a handle, the record is added, and the child
\*            emits 'error' on the next tick
SpawnOutcome == {"ok", "throws", "error"}


\* Mutant of loopBreaks: the start loop does not look at the shutdown flag.
loopBreaks_Never(isSet) == FALSE

\* if (this.shutdownEvent.isSet()) break
loopBreaks(isSet) == isSet

\* catch (error) { log }: the for loop goes on with i++
nextAfterThrow(i) == i + 1

\* The iterations the start loop runs before it next awaits: every spawn
\* that raises is logged and followed at once by the next iteration.
RECURSIVE spawnRun(_, _, _)
spawnRun(insts, i, out) ==
  IF i > Len(insts) THEN [log |-> <<>>, at |-> i]
  ELSE IF out[i] = "throws"
  THEN LET r == spawnRun(insts, nextAfterThrow(i), out)
       IN [log |-> <<[index |-> insts[i].index, result |-> "throws"]>> \o r.log,
           at |-> r.at]
  ELSE [log |-> <<[index |-> insts[i].index, result |-> out[i]]>>, at |-> i]

\* while (!this.shutdownEvent.isSet()): getAliveCount(), break at 0, else
\* sleep 10 s.
MonitorCheck ==
  IF shutdownEvent
  THEN /\ fPc' = "ended"
       /\ UNCHANGED processes
  ELSE /\ processes' = getAliveProcesses(processes)
       /\ fPc' = IF getAliveProcesses(processes) = {} THEN "ended" ELSE "monitor"

\* The for loop from iteration i up to its next await (the start delay), or
\* to its end and into the monitor loop.
LoopRun(insts, i) ==
  IF loopBreaks(shutdownEvent)
  THEN /\ MonitorCheck
       /\ UNCHANGED <<fI, spawnLog, osState>>
  ELSE \E out \in [1..Len(insts) -> SpawnOutcome] :
         LET r == spawnRun(insts, i, out)
         IN /\ spawnLog' = spawnLog \o r.log
            /\ fI' = r.at
            /\ IF r.at > Len(insts)
               THEN /\ MonitorCheck
                    /\ UNCHANGED osState
               ELSE /\ fPc' = "delay"
                    /\ processes' = processes \cup {insts[r.at].index}
                    /\ osState' = [osState EXCEPT ![insts[r.at].index] =
                                     IF out[r.at] = "ok" THEN "running"
                                     ELSE "spawnFailed"]

\* start(): the HTTP server listens, then _startBrowserInstances() up to its
\* first await.
StartBrowserInstances ==
  /\ fPc = "constructed"
  /\ instances' = loadInstanceConfigurations
  /\ IF Len(loadInstanceConfigurations) = 0
     THEN /\ fPc' = "ended"
          /\ UNCHANGED <<fI, spawnLog, processes, osState>>
     ELSE LoopRun(loadInstanceConfigurations, 1)
  /\ UNCHANGED <<isWindows, killed, doomed, forceTried, shutdownEvent, taPc,
                 taTracked, lateEvent, sVars, rVars, xVars>>
  /\ UNCHANGED <<authKeys, authContent, initialIndices, availableIndices,
                 rejected>>

\* The start delay elapses.  An 'error' event of the spawn just made is
\* emitted on the next tick, before any timer.
DelayDone ==
  /\ fPc = "delay"
  /\ \A p \in Pids : osState[p] # "spawnFailed"
  /\ LoopRun(instances, fI + 1)
  /\ UNCHANGED <<isWindows, killed, doomed, forceTried, shutdownEvent, taPc,
                 taTracked, lateEvent, sVars, rVars, xVars>>
  /\ UNCHANGED <<authKeys, authContent, initialIndices, availableIndices,
                 rejected, instances>>

\* The 10 s sleep of the monitor loop elapses.
MonitorTick ==
  /\ fPc = "monitor"
  /\ MonitorCheck
  /\ UNCHANGED <<isWindows, osState, killed, doomed, forceTried, shutdownEvent,
                 taPc, taTracked, lateEvent, sVars, rVars, xVars>>
  /\ UNCHANGED <<authKeys, authContent, initialIndices, availableIndices,
                 rejected, instances, fI, spawnLog>>


\* Mutant of SpawnErrorEvent: the 'error' listener leaves the record.
SpawnErrorEvent_KeepsRecord(p) ==
  /\ osState[p] = "spawnFailed"
  /\ osState' = [osState EXCEPT ![p] = "failed"]
  /\ UNCHANGED <<isWindows, processes, killed, doomed, forceTried,
                 shutdownEvent, taPc, taTracked, lateEvent, sVars, fVars, rVars, xVars>>

\* The 'error' event of a child that could not be spawned: the listener
\* runs removeProcess(childProcess.pid).
SpawnErrorEvent(p) ==
  /\ osState[p] = "spawnFailed"
  /\ osState' = [osState EXCEPT ![p] = "failed"]
  /\ processes' = removeProcess(processes, p)
  /\ UNCHANGED <<isWindows, killed, doomed, forceTried, shutdownEvent, taPc,
                 taTracked, lateEvent, sVars, fVars, rVars, xVars>>

\* SIGTERM / SIGINT of the server: the handlers are registered once the
\* server is constructed.
ServerSignal ==
  /\ fPc \notin {"new", "aborted"}
  /\ Stop

\* ---------------------------------------------------------------------
\* Specifications
\* ---------------------------------------------------------------------
InitPM ==
  /\ isWindows \in BOOLEAN
  /\ processes = {}
  /\ osState = [p \in Pids |-> "unborn"]
  /\ killed = [p \in Pids |-> FALSE]
  /\ doomed = [p \in Pids |-> FALSE]
  /\ forceTried = [p \in Pids |-> FALSE]
  /\ shutdownEvent = FALSE
  /\ taPc = "idle"
  /\ taTracked = {}
  /\ lateEvent = FALSE

InitSession ==
  /\ sPc = "main"
  /\ attempt = 1
  /\ shutdown = FALSE
  /\ browser = "none" /\ context = "none" /\ page = "none"
  /\ closeLog = <<>>
  /\ finalUrl = NoUrl /\ pageTitle = NoTitle
  /\ outcome = "none"
  /\ failReason = "-"
  /\ loopState = "none"
  /\ lastWsStatus = "UNKNOWN"
  /\ lastRead = "UNKNOWN"
  /\ clickCounter = 0
  /\ consecutiveErrors = 0
  /\ consecutiveUnhealthyChecks = 0
  /\ waitI = 0
  /\ ev = NoEv
  /\ sinceHealth = 0
  /\ delaySeconds = 0
  /\ exitCode = -1

\* The server before new BrowserAutomationServer().
InitServer ==
  /\ fPc = "new"
  /\ initialIndices = <<>>
  /\ availableIndices = <<>>
  /\ rejected = <<>>
  /\ instances = <<>>
  /\ fI = 0
  /\ spawnLog = <<>>

\* SpecPM and SpecSession do not look into the fleet startup.
FleetNotModelled ==
  /\ authKeys = <<>>
  /\ authContent = [p \in Pids |-> NonPayload("unreadable")]
  /\ fPc = "-"
  /\ initialIndices = <<>>
  /\ availableIndices = <<>>
  /\ rejected = <<>>
  /\ instances = <<>>
  /\ fI = 0
  /\ spawnLog = <<>>

\* No /health request yet, terminateAll not called, no repeated signal.
NothingAsked ==
  /\ health = NoResponse
  /\ taTimeout = DefaultTimeout
  /\ taGraceMs = 0
  /\ stopAgain = FALSE
  /\ sigAgain = FALSE

\* No call of reconnectWs is followed statement by statement.
ReconnectNotEntered ==
  /\ rPc = "idle"
  /\ rAttempt = 0
  /\ rSteps = <<>>
  /\ rLast = NoAttempt
  /\ rResult = "-"
  /\ rPolls = 0
  /\ NothingAsked

\* SpecPM: the supervisor, with a session process that is not looked into.
Init ==
  /\ InitPM
  /\ InitSession
  /\ hasCookies = TRUE /\ platformOk = TRUE
  /\ FleetNotModelled
  /\ ReconnectNotEntered

\* SpecSession: one session process; its configuration and platform vary.
InitS ==
  /\ InitPM
  /\ isWindows = FALSE
  /\ InitSession
  /\ hasCookies \in BOOLEAN
  /\ platformOk \in BOOLEAN
  /\ FleetNotModelled
  /\ ReconnectNotEntered

NextSession ==
  \/ RunnerStart
  \/ RunnerOpen
  \/ RunnerVerify
  \/ RunnerEnterLoop
  \/ TickUnhealthy
  \/ TickGlitch
  \/ TickPlain
  \/ LoopExit
  \/ WaitStep
  \/ Recover
  \/ RunnerFinally
  \/ RetryBreak
  \/ RetryCatch
  \/ BackoffDone
  \/ Signal

SpecSession == InitS /\ [][NextSession]_vars

\* A step in which a call on the automation surface (launch, newContext,
\* newPage, goto, waitForTimeout) raises.
CallRaises ==
  \/ sPc \in {"launch", "enter", "recover"} /\ sPc' = "finally"
  \/ sPc = "loop" /\ ev'.kind = "raised" /\ ev'.cur # "-"
  \/ sPc = "wait" /\ consecutiveErrors' # consecutiveErrors

\* SpecCallsReturn: the session process when every call on the automation
\* surface returns.  The event loop runs every continuation that is ready
\* and every timer fires, hence the weak fairness.
NextCallsReturn ==
  \/ RunnerStart /\ ~CallRaises
  \/ RunnerOpen /\ ~CallRaises
  \/ RunnerVerify /\ ~CallRaises
  \/ RunnerEnterLoop /\ ~CallRaises
  \/ TickUnhealthy /\ ~CallRaises
  \/ TickGlitch /\ ~CallRaises
  \/ TickPlain /\ ~CallRaises
  \/ LoopExit /\ ~CallRaises
  \/ WaitStep /\ ~CallRaises
  \/ Recover /\ ~CallRaises
  \/ RunnerFinally /\ ~CallRaises
  \/ RetryBreak /\ ~CallRaises
  \/ RetryCatch /\ ~CallRaises
  \/ BackoffDone /\ ~CallRaises
  \/ Signal /\ ~CallRaises

SpecCallsReturn ==
  InitS /\ [][NextCallsReturn]_vars /\ WF_vars(NextCallsReturn)


NextPM ==
  \/ \E p \in Pids : SpawnBrowserInstance(p)
  \/ \E p \in Pids : ChildExit(p)
  \/ \E p \in Pids : ChildError(p)
  \/ GetAliveCount
  \/ Stop
  \/ TerminateAllForce
  \/ TerminateAllFinish

SpecPM == Init /\ [][NextPM]_vars

\* SpecFleet: the server from its construction on: credential discovery and
\* validation, the start loop, the monitor loop, stop().
InitFleet ==
  /\ InitPM
  /\ isWindows = FALSE
  /\ InitSession
  /\ hasCookies = TRUE /\ platformOk = TRUE
  /\ authKeys \in KeyLists
  /\ authContent \in [Pids -> SourceContents]
  \* a number that names no variable and no file has no content
  /\ \A p \in Pids \ Range(authKeys) : authContent[p] = NonPayload("unreadable")
  /\ InitServer
  /\ ReconnectNotEntered

NextFleet ==
  \/ NewServer
  \/ StartBrowserInstances
  \/ DelayDone
  \/ MonitorTick
  \/ \E p \in Pids : SpawnErrorEvent(p)
  \/ \E p \in Pids : ChildExit(p)
  \/ \E p \in Pids : ChildError(p)
  \/ GetAliveCount
  \/ ServerSignal
  \/ TerminateAllForce
  \/ TerminateAllFinish

SpecFleet == InitFleet /\ [][NextFleet]_vars

\* SpecReconnect: a session in Active (the state RunnerEnterLoop leaves,
\* with any recorded status) whose tick calls reconnectWs; the shutdown
\* signal may arrive at any point of the call.
InitReconnect ==
  /\ InitPM
  /\ isWindows = FALSE
  /\ hasCookies = TRUE /\ platformOk = TRUE
  /\ sPc = "loop"
  /\ attempt = 1
  /\ shutdown = FALSE
  /\ browser = "open" /\ context = "open" /\ page = "open"
  /\ closeLog = <<>>
  /\ finalUrl = [blank |-> FALSE, has |-> {}] /\ pageTitle = {}
  /\ outcome = "none"
  /\ failReason = "-"
  /\ loopState = "running"
  /\ lastWsStatus \in Status
  /\ lastRead = lastWsStatus
  /\ clickCounter = 0
  /\ consecutiveErrors = 0
  /\ consecutiveUnhealthyChecks = 0
  /\ waitI = 0
  /\ ev = NoEv
  /\ sinceHealth = 0
  /\ delaySeconds = 0
  /\ exitCode = -1
  /\ FleetNotModelled
  /\ ReconnectNotEntered

NextReconnect ==
  \/ ReconnectCall
  \/ ReconnectDismiss
  \/ ReconnectDisconnect
  \/ ReconnectRetryWait
  \/ ReconnectWaitDisconnected
  \/ ReconnectRead
  \/ ReconnectConnect
  \/ ReconnectWaitConnected
  \/ ReconnectPoll
  \/ ReconnectPollWait
  \/ ReconnectTimeoutWait
  \/ ReconnectCatch
  \/ Signal

SpecReconnect == InitReconnect /\ [][NextReconnect]_vars

\* SpecHealth: the supervisor with the status endpoint.
NextHealth ==
  \/ NextPM
  \/ HealthRequest

SpecHealth == Init /\ [][NextHealth]_vars

\* SpecTerminate: the ProcessManager with terminateAll called directly,
\* with any of the arguments of Timeouts, or through stop().
NextTerminate ==
  \/ NextPM
  \/ \E t \in Timeouts : TerminateAllWith(t)

SpecTerminate == Init /\ [][NextTerminate]_vars

\* SpecSignals: the supervisor and a session process (not looked into)
\* under repeated SIGTERM/SIGINT.
NextSignals ==
  \/ NextPM
  \/ StopAgain
  \/ TerminateAllForceAgain
  \/ Signal
  \/ SignalAgain

SpecSignals == Init /\ [][NextSignals]_vars

\* A step of reconnectWs in which page.waitForTimeout raises.
ReconnectRaises == rPc' \in {"catch", "raised"}

\* SpecReconnectReturns: the same call when every automation call and every
\* wait returns; the event loop runs each continuation that is ready.
NextReconnectReturns ==
  \/ ReconnectCall /\ ~ReconnectRaises
  \/ ReconnectDismiss /\ ~ReconnectRaises
  \/ ReconnectDisconnect /\ ~ReconnectRaises
  \/ ReconnectRetryWait /\ ~ReconnectRaises
  \/ ReconnectWaitDisconnected /\ ~ReconnectRaises
  \/ ReconnectRead /\ ~ReconnectRaises
  \/ ReconnectConnect /\ ~ReconnectRaises
  \/ ReconnectWaitConnected /\ ~ReconnectRaises
  \/ ReconnectPoll /\ ~ReconnectRaises
  \/ ReconnectPollWait /\ ~ReconnectRaises
  \/ ReconnectTimeoutWait /\ ~ReconnectRaises
  \/ Signal /\ ~ReconnectRaises

SpecReconnectReturns ==
  InitReconnect /\ [][NextReconnectReturns]_vars /\ WF_vars(NextReconnectReturns)


\* ---------------------------------------------------------------------
\* Claims on terminateAll
\* ---------------------------------------------------------------------

\* C1: when terminateAll has completed, every process that was tracked when
\* it was called has exited or has had the forced kill attempted on it.
C1_NoProcessOutlivesTerminateAll ==
  taPc = "done" =>
    \A p \in taTracked : osState[p] = "exited" \/ forceTried[p]

\* C2: once terminateAll has completed the tracked set is empty, and exit or
\* error events handled afterwards leave it empty.
C2_TerminateAllLeavesNoRecord ==
  taPc = "done" => processes = {}

\* C2 witness: terminateAll ran on a non-empty set with a kill delivered, it
\* completed, and an exit or error event was handled after the clear.
C2_Witness ==
  /\ taPc = "done"
  /\ taTracked # {}
  /\ \E p \in taTracked : killed[p]
  /\ lateEvent

\* ---------------------------------------------------------------------
\* Claims on the Restart Supervisor and the exit code
\* ---------------------------------------------------------------------

\* The failures C3 lists: navigation failure, a failed verification
\* heuristic, browser crash, unhealthy budget or loop-error budget exceeded.
RunnerFailures ==
  {"NavigationFailure", "CookieExpired", "RegionBlocked", "IpBlocked",
   "LoadFailure", "BrowserError", "PersistentlyUnhealthy", "LoopError"}

\* C3: when a Session Runner invocation has ended in Failed, no shutdown was
\* requested and fewer than maxRetries attempts were made, the next step of
\* runBrowserInstanceWithRetry is the backoff wait (followed by a new
\* invocation).
C3_FailedInvocationIsRetried ==
  [][(/\ sPc \in {"settledOk", "settledErr"}
      /\ sPc' # sPc
      /\ outcome = "Failed"
      /\ failReason \in RunnerFailures
      /\ ~shutdown
      /\ attempt < maxRetries) => sPc' = "backoff"]_vars

\* C4: the session process exits with 0 after an intentional shutdown, with
\* a non-zero code after exhausting the restart attempts, and never with 0
\* when its last invocation ended in Failed and no shutdown was requested.
C4_ExitCodeContract ==
  sPc = "exited" =>
    /\ (outcome = "Completed" => exitCode = 0)
    /\ (outcome = "Failed" /\ attempt = maxRetries => exitCode # 0)
    /\ (outcome = "Failed" /\ ~shutdown => exitCode # 0)

\* ---------------------------------------------------------------------
\* Claims on the Active loop
\* ---------------------------------------------------------------------

\* C5: when consecutiveErrors reaches maxConsecutiveErrors the loop has
\* ended by re-raising, and the invocation is Failed.
C5_ErrorCeilingFailsSession ==
  consecutiveErrors >= maxConsecutiveErrors =>
    /\ loopState = "raised"
    /\ outcome = "Failed"
    /\ sPc = "finally"
    /\ failReason \in {"LoopError", "PersistentlyUnhealthy"}

\* C5 witness: ten ticks in a row raised and the loop has re-raised.
C5_Witness ==
  /\ consecutiveErrors = maxConsecutiveErrors
  /\ loopState = "raised"
  /\ outcome = "Failed"

\* C6: the loop never ends with an error while consecutiveErrors is below
\* the ceiling.
C6_NoFailureBelowCeiling ==
  (sPc = "finally" /\ loopState = "raised") =>
    consecutiveErrors >= maxConsecutiveErrors

\* C7: when consecutiveUnhealthyChecks reaches its ceiling, the loop has
\* ended at that tick with the 'persistently unhealthy' error.
C7_UnhealthyCeilingFailsSession ==
  consecutiveUnhealthyChecks >= maxConsecutiveUnhealthyChecks =>
    /\ sPc = "finally"
    /\ loopState = "raised"
    /\ failReason = "PersistentlyUnhealthy"

\* The identity-provider login heuristic as the claim states it.
LoginHeuristic ==
  \/ "accounts.google.com" \in finalUrl.has
  \/ "ServiceLogin" \in finalUrl.has
  \/ "Sign in" \in pageTitle

\* C8: an invocation whose final URL or title matches the login heuristic
\* is Failed with the credential-expired reason, and startKeepAliveLoop is
\* not called in it.
C8_LoginPageNeverActive ==
  LoginHeuristic =>
    /\ outcome = "Failed"
    /\ failReason = "CookieExpired"
    /\ loopState = "none"
    /\ sPc \in {"finally", "settledOk", "exited"}

\* C8 witness: the verification has just run on a ServiceLogin URL that does
\* not contain accounts.google.com, with a title that also matches the
\* region heuristic.
C8_Witness ==
  /\ sPc = "finally"
  /\ "ServiceLogin" \in finalUrl.has
  /\ "accounts.google.com" \notin finalUrl.has
  /\ "not available" \in pageTitle
  /\ failReason = "CookieExpired"

\* C9: a tick that started with CONNECTED recorded, read UNKNOWN and
\* re-read CONNECTED calls reconnectWs zero times, records CONNECTED and
\* goes on with the loop.
C9_GlitchRecoveryNoReconnect ==
  (ev.prev = "CONNECTED" /\ ev.cur = "UNKNOWN" /\ ev.recheck = "CONNECTED") =>
    /\ ev.reconnects = 0
    /\ ev.kind = "glitch"
    /\ lastWsStatus = "CONNECTED"
    /\ loopState = "running"
    /\ sPc = "loop"

\* C9 witness: such a tick has just been executed.
C9_Witness ==
  /\ ev.kind = "glitch"
  /\ ev.prev = "CONNECTED"
  /\ ev.cur = "UNKNOWN"
  /\ ev.recheck = "CONNECTED"

\* C10: a tick calls reconnectWs at most once, and only when its read is not
\* CONNECTED and differs from the recorded status, which is the read of the
\* last tick that ran to its end; a tick that reads IDLE after CONNECTED
\* calls it exactly once; when the call returns the tick records its read
\* and the loop goes on (the 10 s wait), so the same read on the next tick
\* does not reconnect again.
C10_ReconnectOncePerStatusChange ==
  /\ ev.reconnects <= 1
  /\ (ev.reconnects = 1 => ev.cur # "CONNECTED" /\ ev.cur # ev.prev)
  /\ (ev.prev = "CONNECTED" /\ ev.cur = "IDLE" => ev.reconnects = 1)
  /\ (ev.kind = "ok" =>
        /\ lastWsStatus = ev.cur
        /\ sPc = "wait"
        /\ loopState = "running")
  /\ (loopState = "running" => lastWsStatus = lastRead)

\* C10 witness: CONNECTED was recorded, the tick read IDLE, reconnectWs was
\* called once and returned, and the session is back in the loop.
C10_Witness ==
  /\ ev.kind = "ok"
  /\ ev.prev = "CONNECTED"
  /\ ev.cur = "IDLE"
  /\ ev.reconnects = 1
  /\ sPc = "wait"

\* ---------------------------------------------------------------------
\* Claims on Reconnecting
\* ---------------------------------------------------------------------

\* C11: a tick in which reconnectWs used up all its attempts without
\* reaching CONNECTED ends like any other tick (the loop goes on, nothing is
\* recorded as failed), and the loop ends with an error only when
\* consecutiveErrors has reached maxConsecutiveErrors.
C11_ExhaustedReconnectKeepsSession ==
  /\ (ev.rc = "exhausted" =>
        /\ ev.kind = "ok"
        /\ sPc = "wait"
        /\ loopState = "running"
        /\ outcome # "Failed")
  /\ (loopState = "raised" /\ sPc = "finally" =>
        consecutiveErrors >= maxConsecutiveErrors)

\* The first half of C11 alone: exhausting the attempts never raises.
ExhaustedReconnectReturns ==
  ev.rc = "exhausted" =>
    /\ ev.kind = "ok"
    /\ sPc = "wait"
    /\ loopState = "running"
    /\ outcome # "Failed"
    /\ consecutiveErrors = 0

\* C12: when a tick that called reconnectWs is over, lastWsStatus is the
\* status read after reconnectWs returned.
C12_RecordedStatusIsReread ==
  (ev.kind = "ok" /\ ev.reconnects = 1) => lastWsStatus = ev.post

\* ---------------------------------------------------------------------
\* Claims on credential discovery and validation
\* ---------------------------------------------------------------------

\* C13: once the AuthSource is constructed (or its construction has
\* failed), availableIndices holds only discovered indices, in strictly
\* ascending order, hence without duplicates.
C13_AvailableIndicesSubsetSorted ==
  fPc # "new" =>
    /\ Range(availableIndices) \subseteq Range(authKeys)
    /\ \A i, j \in 1..Len(availableIndices) :
         i < j => availableIndices[i] < availableIndices[j]

\* C13 witness: the enumeration gave a number twice and out of order, and
\* two indices passed the validation.
C13_Witness ==
  /\ fPc = "constructed"
  /\ Len(authKeys) > Cardinality(Range(authKeys))
  /\ authKeys[1] > authKeys[2]
  /\ Len(availableIndices) >= 2

\* C14: when no index is left after the validation, the construction has
\* failed and no session process is spawned or tracked.
C14_NoUsableSourceAbortsStartup ==
  (fPc # "new" /\ availableIndices = <<>>) =>
    /\ fPc = "aborted"
    /\ spawnLog = <<>>
    /\ processes = {}

\* C14 witness: sources were discovered, all were rejected, startup failed.
C14_Witness ==
  /\ fPc = "aborted"
  /\ authKeys # <<>>
  /\ Len(rejected) = Cardinality(Range(authKeys))

\* The start loop is over and no shutdown was requested.
StartLoopRanToItsEnd == fPc \in {"monitor", "ended"} /\ ~shutdownEvent

\* C15: a source that cannot be read or parsed is left out of
\* availableIndices and listed as rejected while every other source is
\* kept; spawnBrowserInstance is called at most once per source, in
\* ascending index order; and when the start loop has run to its end
\* without a shutdown and without a spawn error, it was called once for
\* every index of availableIndices.
C15_OneProcessPerUsableSource ==
  /\ fPc # "new" =>
       \A i \in Range(authKeys) :
         /\ authContent[i].kind \in {"unreadable", "malformed"} =>
              i \notin Range(availableIndices) /\ i \in Range(rejected)
         /\ authContent[i].kind \in {"falsy", "object"} =>
              i \in Range(availableIndices)
  /\ \A i, j \in 1..Len(spawnLog) :
       i < j => spawnLog[i].index < spawnLog[j].index
  /\ (StartLoopRanToItsEnd /\ \A k \in 1..Len(spawnLog) : spawnLog[k].result = "ok")
       => [k \in 1..Len(spawnLog) |-> spawnLog[k].index] = availableIndices

\* C15 restricted to the sources _loadInstanceConfigurations builds a
\* configuration for: one spawn per such source, in ascending order.
OneProcessPerLoadedSource ==
  /\ \A i, j \in 1..Len(spawnLog) :
       i < j => spawnLog[i].index < spawnLog[j].index
  /\ (StartLoopRanToItsEnd /\ \A k \in 1..Len(spawnLog) : spawnLog[k].result = "ok")
       => [k \in 1..Len(spawnLog) |-> spawnLog[k].index]
            = SelectSeq(availableIndices, hasAuthData)

\* C16: for every session process that was spawned, the process that
\* reads its configuration from the command line creates the browser
\* context from the source's storageState when the source has one, and from
\* the cookies alone only when it has none.
C16_SessionGetsLoadedPayload ==
  \A k \in 1..Len(instances) :
    (\E e \in Range(spawnLog) : e.index = instances[k].index /\ e.result = "ok") =>
      LET src == authContent[instances[k].index]
          as == parseConfig(stringifyConfig(instances[k]))
      IN /\ src.storageState = "full" =>
              as.storageState = "full" /\ sessionContext(as) = "full"
         /\ src.storageState = "absent" =>
              sessionContext(as) \in {"cookiesOnly", "notOpened"}

\* C17: an invocation that found no cookies has not opened the browser,
\* is Failed, and is handed to runBrowserInstanceWithRetry as a rejection.
C17_NoCookiesIsSurfacedAsFailure ==
  failReason = "NoCookies" =>
    /\ browser = "none"
    /\ outcome = "Failed"
    /\ sPc # "settledOk"
    /\ (sPc = "exited" => exitCode # 0)

\* ---------------------------------------------------------------------
\* Claims on the start loop
\* ---------------------------------------------------------------------

\* C18: no step taken while the shutdown flag is set calls
\* spawnBrowserInstance.
C18_NoSpawnAfterShutdown ==
  [][shutdownEvent => spawnLog' = spawnLog]_vars

\* C18 witness: stop() was called during the start delay of the first
\* instance, the delay elapsed, and the remaining instance was not spawned.
C18_Witness ==
  /\ shutdownEvent
  /\ fPc = "ended"
  /\ Len(spawnLog) >= 1
  /\ Len(spawnLog) < Len(instances)

\* C19: when the start loop has run to its end without a shutdown,
\* spawnBrowserInstance was called for every instance whatever the result
\* of the other calls, and no instance whose spawn failed is tracked.
C19_SpawnErrorDoesNotAbortStartup ==
  /\ StartLoopRanToItsEnd =>
       /\ [k \in 1..Len(spawnLog) |-> spawnLog[k].index]
            = [k \in 1..Len(instances) |-> instances[k].index]
       /\ \A k \in 1..Len(spawnLog) :
            spawnLog[k].result # "ok" => spawnLog[k].index \notin processes
  /\ \A k \in 1..Len(spawnLog) :
       spawnLog[k].result = "throws" => spawnLog[k].index \notin processes

\* C19 witness: the spawn of the first instance failed with an 'error'
\* event, the second instance was spawned and runs.
C19_Witness ==
  /\ StartLoopRanToItsEnd
  /\ Len(spawnLog) = 2
  /\ spawnLog[1].result = "error"
  /\ spawnLog[2].result = "ok"
  /\ osState[spawnLog[2].index] = "running"

\* ---------------------------------------------------------------------
\* Claims on ShuttingDown
\* ---------------------------------------------------------------------

\* The session is at a waitpoint of the loop with the shutdown flag set.
ShutdownSeenInLoop == shutdown /\ sPc \in {"loop", "wait", "recover"}

\* startKeepAliveLoop has returned, page, context and browser were closed in
\* this order, and the invocation completed.
UnwoundCompleted ==
  /\ sPc \in {"settledOk", "exited"}
  /\ loopState = "returned"
  /\ outcome = "Completed"
  /\ closeLog = <<"page", "context", "browser">>
  /\ page # "open" /\ context # "open" /\ browser # "open"

C21_ShutdownStopsReconnect ==
  [][(shutdown /\ rPc \notin {"idle", "returned", "raised"}) =>
       /\ rAttempt' = rAttempt
       /\ ~(rPc \in {"disconnect", "connect"} /\ rPc' # rPc)]_vars

\* ---------------------------------------------------------------------
\* Claims on the release of the automation surface
\* ---------------------------------------------------------------------

\* page, context and browser, those that were created, in closing order
CreatedInClosingOrder ==
  (IF page # "none" THEN <<"page">> ELSE <<>>)
    \o (IF context # "none" THEN <<"context">> ELSE <<>>)
    \o (IF browser # "none" THEN <<"browser">> ELSE <<>>)

\* C22: when an invocation leaves its try block (from any exit path), close
\* is attempted on the page, then the context, then the browser, for each
\* of them that was created, whether or not an earlier close failed, and
\* the outcome of the invocation is not changed by it.
C22_UnwindClosesEverything ==
  [][(sPc = "finally" /\ sPc' # sPc) =>
       /\ sPc' = "settledOk"
       /\ closeLog' = CreatedInClosingOrder
       /\ page' # "open" /\ context' # "open" /\ browser' # "open"
       /\ outcome' = outcome
       /\ failReason' = failReason]_vars

\* C22 witness: a failed invocation has settled; closing the page and the
\* context failed, and the browser was closed after them.
C22_Witness ==
  /\ sPc = "settledOk"
  /\ outcome = "Failed"
  /\ page = "closeFailed"
  /\ context = "closeFailed"
  /\ browser = "closed"
  /\ closeLog = <<"page", "context", "browser">>

\* ---------------------------------------------------------------------
\* Claims on the aggregate queries and the record set
\* ---------------------------------------------------------------------

\* C23: at any moment getCount() does not exceed getAliveCount(), and
\* getProcessInfo() lists no instance with is_alive false.
C23_QueriesReportOnlyUnflagged ==
  /\ getCount(processes) <= getAliveCount(processes)
  /\ \A p \in DOMAIN getProcessInfo(processes) :
       getProcessInfo(processes)[p].is_alive

\* C24: a status query removes no record of a process that has not exited,
\* and every tracked record belongs to a process whose exit event has not
\* been handled.
C24_RecordRemovedOnlyByEventOrTeardown ==
  [][/\ GetAliveCount => \A p \in processes \ processes' : osState[p] = "exited"
     /\ \A p \in processes' : osState'[p] # "exited"]_vars

\* ---------------------------------------------------------------------
\* Claims on the Restart Supervisor's loop
\* ---------------------------------------------------------------------

\* C25: when an invocation has settled as Completed, the next step of the
\* supervisor ends the process: no backoff wait, no further attempt.
C25_CompletedEndsSupervisor ==
  [][(sPc = "settledOk" /\ outcome = "Completed" /\ sPc' # sPc) =>
       /\ sPc' = "exited"
       /\ attempt' = attempt
       /\ delaySeconds' = delaySeconds]_vars

\* C25 witness: the first invocation completed on shutdown and the process
\* has exited without any backoff wait.
C25_Witness ==
  /\ sPc = "exited"
  /\ outcome = "Completed"
  /\ loopState = "returned"
  /\ attempt = 1
  /\ delaySeconds = 0

LoginMatch(url, title) ==
  \/ "accounts.google.com" \in url.has
  \/ "ServiceLogin" \in url.has
  \/ "Sign in" \in title
  \/ "login-zh" \in title

RegionMatch(title) ==
  \/ "Available regions" \in title
  \/ "not available" \in title
  \/ "unavailable-zh" \in title

ForbiddenMatch(title) == "403" \in title \/ "Forbidden" \in title

\* the reason of the first heuristic that matches, "-" when none does
FirstMatch(url, title) ==
  CASE LoginMatch(url, title) -> "CookieExpired"
    [] ~LoginMatch(url, title) /\ RegionMatch(title) -> "RegionBlocked"
    [] ~LoginMatch(url, title) /\ ~RegionMatch(title) /\ ForbiddenMatch(title)
         -> "IpBlocked"
    [] ~LoginMatch(url, title) /\ ~RegionMatch(title) /\ ~ForbiddenMatch(title)
         /\ url.blank -> "LoadFailure"
    [] OTHER -> "-"

\* C27: the verification step fails the invocation with the reason of the
\* first heuristic that matches, in the order login, region, 403, blank URL;
\* an outcome that matches none goes on to the dialog dismissal, and from
\* there, unless a call raises, into the keep-alive loop.
C27_FirstMatchingHeuristicDecides ==
  [][/\ (sPc = "verify" /\ sPc' # sPc) =>
          IF FirstMatch(finalUrl', pageTitle') # "-"
          THEN /\ sPc' = "finally"
               /\ outcome' = "Failed"
               /\ failReason' = FirstMatch(finalUrl', pageTitle')
               /\ loopState' = "none"
          ELSE /\ sPc' = "enter"
               /\ outcome' = "none"
               /\ failReason' = "-"
     /\ (sPc = "enter" /\ sPc' # sPc /\ outcome' # "Failed") =>
          /\ sPc' = "loop"
          /\ loopState' = "running"]_vars

\* C27 witness: the verification has just failed an outcome that matches
\* the region, the 403 and the blank-URL heuristic, but not the login one.
C27_Witness ==
  /\ sPc = "finally"
  /\ loopState = "none"
  /\ finalUrl # NoUrl
  /\ ~LoginMatch(finalUrl, pageTitle)
  /\ RegionMatch(pageTitle)
  /\ ForbiddenMatch(pageTitle)
  /\ finalUrl.blank
  /\ failReason = "RegionBlocked"

\* ---------------------------------------------------------------------
\* Claims on the health-check cadence and the error counter
\* ---------------------------------------------------------------------

\* C28: after the grace window of the first 60 ticks, health checks run
\* every 30 ticks: never more than grace + 30 ticks pass from the entry into
\* the loop, or from one health check, without a health check.
C28_HealthCheckEvery30Ticks == sinceHealth <= HealthGrace + HealthEvery

\* C29: a tick that ran to its end without raising, the glitch-recovery tick
\* included, leaves consecutiveErrors at zero.
C29_TickWithoutErrorResetsCounter ==
  ev.kind \in {"ok", "glitch"} => consecutiveErrors = 0

\* ---------------------------------------------------------------------
\* Claims on the steps of a reconnect attempt
\* ---------------------------------------------------------------------

ReconnectSteps ==
  <<"dismiss", "disconnect", "wait", "read", "connect", "wait", "poll">>

\* C30: an attempt that ends without an exception has performed the seven
\* steps in order; in particular it triggered the connect action after its
\* disconnect action.
C30_AttemptRunsAllSteps ==
  /\ rSteps = SubSeq(ReconnectSteps, 1, Len(rSteps))
  /\ rLast.how \in {"continue", "connected", "timeout"} =>
       rLast.steps = ReconnectSteps

\* ---------------------------------------------------------------------
\* Claims on the bound of the reconnect loop
\* ---------------------------------------------------------------------

\* C31: reconnectWs makes at most maxRetries attempts, returns in the first
\* attempt whose poll observes CONNECTED, and, when every call and wait
\* returns, a call that was started returns a status value.
C31_ReconnectIsBoundedAndReturns ==
  /\ [](rAttempt <= reconnectMaxRetries)
  /\ [](rLast.how = "connected" =>
          /\ rPc = "returned"
          /\ rLast.attempt = rAttempt)
  /\ [](rPc = "returned" => rResult \in Status)
  /\ (rPc = "dismiss" ~> rPc = "returned")

\* C31 witness: the third attempt timed out as the two before it, and
\* reconnectWs returned UNKNOWN.
C31_Witness ==
  /\ rPc = "returned"
  /\ rAttempt = reconnectMaxRetries
  /\ rLast = [attempt |-> reconnectMaxRetries, steps |-> ReconnectSteps,
              how |-> "timeout"]
  /\ rResult = "UNKNOWN"

\* ---------------------------------------------------------------------
\* Claims on the tick counter
\* ---------------------------------------------------------------------

\* C32: the tick counter stays within 0..360 and is below 360 whenever a
\* tick starts: every tick that brings it to 360 resets it.
C32_CounterResetAt360 ==
  /\ clickCounter \in 0..ReverifyEvery
  /\ sPc = "loop" => clickCounter < ReverifyEvery

\* ---------------------------------------------------------------------
\* Claims on an unchanged status
\* ---------------------------------------------------------------------

\* C35: a tick whose read equals the recorded status calls no reconnect,
\* whatever that status is, ends without an error and leaves the session in
\* the loop; reconnectWs is called only by a tick whose read differs from
\* the recorded status.
C35_UnchangedStatusNeverReconnects ==
  /\ (ev.cur # "-" /\ ev.cur = ev.prev) =>
       /\ ev.reconnects = 0
       /\ ev.kind = "ok"
       /\ sPc = "wait"
       /\ loopState = "running"
       /\ outcome # "Failed"
       /\ consecutiveErrors = 0
       /\ lastWsStatus = ev.prev
  /\ ev.reconnects > 0 => ev.cur # ev.prev

\* C35 witness: the status read on entering the loop was IDLE, the first
\* tick read IDLE again and went to its wait without a reconnect.
C35_Witness ==
  /\ attempt = 1
  /\ clickCounter = 1
  /\ ev.kind = "ok"
  /\ ev.prev = "IDLE"
  /\ ev.cur = "IDLE"
  /\ ev.reconnects = 0
  /\ sPc = "wait"

\* ---------------------------------------------------------------------
\* Claims on the Restart Supervisor after shutdown
\* ---------------------------------------------------------------------

\* C37: once the shutdown flag is set, a rejected invocation is not followed
\* by a backoff wait, and no attempt after the first is started.
C37_NoRetryAfterShutdown ==
  [][shutdown =>
       /\ ~(sPc = "settledErr" /\ sPc' = "backoff")
       /\ ~(sPc = "main" /\ attempt > 1 /\ sPc' # "main")]_vars

\* ---------------------------------------------------------------------
\* Claims on terminateAll's grace period
\* ---------------------------------------------------------------------

\* C33: the grace wait of terminateAll(timeout) lasts `timeout` ms.
C33_GraceWaitIsTheArgument ==
  (taPc \in {"grace", "settle", "done"} /\ taTracked # {}) =>
    taGraceMs = taTimeout

\* ---------------------------------------------------------------------
\* Claims on the shutdown flags
\* ---------------------------------------------------------------------

\* C34: both flags start unset, and a flag that is set stays set, whatever
\* further signals or stop() calls are handled.
C34_ShutdownFlagsAreMonotonic ==
  /\ ~shutdown /\ ~shutdownEvent
  /\ [][(shutdown => shutdown') /\ (shutdownEvent => shutdownEvent')]_vars

\* C34 witness: both flags are set, the session has handled a second signal
\* and stop() was called a second time.
C34_Witness ==
  /\ shutdown /\ sigAgain
  /\ shutdownEvent /\ stopAgain

\* ---------------------------------------------------------------------
\* Claims on the status endpoint
\* ---------------------------------------------------------------------

\* C36: in every /health response running_instances, browser_instances and
\* the number of listed processes are equal, and every listed process has
\* is_alive true.
C36_HealthResponseIsConsistent ==
  health.asked =>
    /\ health.running_instances = health.browser_instances
    /\ health.browser_instances = Cardinality(DOMAIN health.processes)
    /\ \A p \in DOMAIN health.processes : health.processes[p].is_alive

\* C36 witness: during the grace wait of terminateAll a request was answered
\* with one instance, while the record of a second process, signalled and
\* still running, is gone.
C36_Witness ==
  /\ health.asked
  /\ taPc = "grace"
  /\ health.running_instances = 1
  /\ DOMAIN health.processes = processes
  /\ \E p \in Pids : /\ p \notin processes
                     /\ killed[p]
                     /\ osState[p] = "running"

====
